---- MODULE Spec2Model ----
(***************************************************************************)
(* Model of src/utils/videoUtils.ts: cutVideo (fixed-duration              *)
(* segmentation) and combineVideos (concatenation) driving the MP4Box      *)
(* parse/write adapter.                                                    *)
(*                                                                         *)
(* The adapter (MP4Box) is external: what it reports for a buffer, the     *)
(* samples it delivers and the size of the buffers it builds are inputs    *)
(* of the model, chosen from the bounded sets below.  Durations, time      *)
(* scales and source timestamps are integers.  The segment duration is a   *)
(* number of seconds that need not be whole, and cutVideo works on it in   *)
(* JavaScript numbers (x / timescale / d, Math.ceil, Math.floor,           *)
(* i * d * timescale, dts - start): that arithmetic is modelled as IEEE    *)
(* doubles, rounding included, and the timestamps cutVideo writes are      *)
(* doubles.  combineVideos only adds integers, which doubles do exactly.   *)
(***************************************************************************)
EXTENDS Integers, Sequences, FiniteSets, TLC

\* ------------------------------------------------------------ bounds
MaxDuration == 10
MaxTimescale == 2
MaxSegDur == 2
MaxTracks == 2
MaxDts == 2
MaxSamples == 2
MaxHdr == 1
MaxSources == 2
MaxClipDuration == 2
MaxFlushes == 2
MaxStarts == 2
MaxSceneSets == 2
MaxPolls == 2
MaxTestStarts == 1

MaxFineDts == 3

\* The timescale of the sources that are cut into segments of a tenth of a
\* second; their samples have decode times up to MaxFineDts, those of every
\* other source up to MaxDts.
FineTimescale == 10

VARIABLES
  op,                  \* which export is running: "cut" or "combine"
  pc,                  \* position of the call
  source,              \* cut: what the adapter reports for videoBuffer
  segmentDuration,     \* cut: the segmentDuration argument (seconds)
  infoPromise,         \* the promise returned by the pending getInfo call
  numSegments,         \* cut: local numSegments (-1 before it is computed)
  segmentFiles,        \* cut: local segmentFiles, the destination containers
  trackIdMap,          \* cut: local trackIdMap, source track id -> new ids
  delivered,           \* history: samples handed to an onSamples callback
  errored,             \* the adapter has called mainFile.onError
  flushes,             \* how many times onFlush has run
  clipUrls,            \* cut: clipUrls built by the last onFlush
  result,              \* the promise returned to the caller
  hdrLen,              \* adapter: byte length of a built container's own boxes
  blobs,               \* number of object URLs created so far
  videoUrls,           \* combine: the videoUrls argument
  contents,            \* combine: what the adapter reports for each url
  outputFile,          \* combine: local outputFile (<< >> before createFile)
  newTrackId,          \* combine: id returned by outputFile.addTrack
  accumulatedDuration, \* combine: local accumulatedDuration
  k,                   \* combine: index of the url the loop is at
  allSamples,          \* combine: allSamples of the pending getSamples call
  samplesPromise,      \* combine: the promise returned by getSamples
  fetches,             \* combine: number of fetch calls made
  parsers,             \* number of parser files fed with appendBuffer
  videoBuffer,         \* cut: the videoBuffer argument; combine: local buffer
  handed,              \* history: the objects passed to appendBuffer
  conc,                \* two calls in flight at once: their locals and the
                       \* containers MP4Box.createFile() has made for them
  app                  \* the App component: state, refs, timers and the
                       \* asynchronous handlers in flight

vars == <<op, pc, source, segmentDuration, infoPromise, numSegments,
          segmentFiles, trackIdMap, delivered, errored, flushes, clipUrls,
          result, hdrLen, blobs, videoUrls, contents, outputFile, newTrackId,
          accumulatedDuration, k, allSamples, samplesPromise, fetches,
          parsers, videoBuffer, handed, conc, app>>

cutVars == <<source, segmentDuration, numSegments, segmentFiles, trackIdMap,
             clipUrls>>
combineVars == <<videoUrls, contents, outputFile, newTrackId,
                 accumulatedDuration, k, allSamples, samplesPromise, fetches>>
bufferVars == <<videoBuffer, handed>>

\* ------------------------------------------------------------ errors
\* The Error messages of the code, under the names the specification uses.
EmptyInput == "No videos to combine."
InvalidContainer == "Invalid video file: No tracks found."
InvalidContainerSamples == "Invalid video file: No tracks found for sample extraction."
InvalidDuration == "Invalid video duration."
ExtractionFailure == "Failed to extract any clips from the video. It may be corrupted."
\* Whatever the adapter passes to onError.
AdapterError == "mp4box error"
\* fetch(url) or res.arrayBuffer() rejects (lines 183 and 200).
FetchFailure == "Failed to fetch"

Pending == [state |-> "pending", value |-> << >>, error |-> ""]
Resolved(v) == [state |-> "resolved", value |-> v, error |-> ""]
Rejected(e) == [state |-> "rejected", value |-> << >>, error |-> e]

\* resolve / reject of a promise: only the first settlement counts.
Settle(p, outcome) == IF p.state = "pending" THEN outcome ELSE p

\* ------------------------------------------------------------ inputs
\* The codec configuration of the i-th track of a container.
CodecOf(i) == IF i = 1 THEN "avc1" ELSE "mp4a"

\* Track descriptors as the adapter reports them: ids 1..n in container
\* order, each with its timescale, its codec configuration, its sample count
\* and duration, and its creation and modification times.
TrackListsOf(timescales) ==
  UNION { { t \in [1..n -> [id : 1..MaxTracks, timescale : timescales,
                            codec : {CodecOf(i) : i \in 1..MaxTracks},
                            nb_samples : {1}, duration : {1},
                            created : {"source"}, modified : {"source"}]] :
              \A i \in 1..n : t[i].id = i /\ t[i].codec = CodecOf(i) } :
          n \in 0..MaxTracks }
TrackLists == TrackListsOf(1..MaxTimescale)

\* MP4BoxInfo as reported by onReady, or a parse error reported by onError.
Infos(minDuration, maxDuration, trackLists) ==
  [outcome : {"ready"}, duration : minDuration..maxDuration,
   timescale : 1..MaxTimescale, tracks : trackLists]
  \cup
  [outcome : {"error"}, duration : {0}, timescale : {1}, tracks : {<< >>}]

\* Sources in the timescale FineTimescale, movie and tracks alike.
FineInfos ==
  [outcome : {"ready"}, duration : 1..MaxDuration, timescale : {FineTimescale},
   tracks : TrackListsOf({FineTimescale}) \ {<< >>}]

\* Samples the adapter can deliver: dts >= 0 (decode times are cumulative
\* unsigned deltas), cts = dts + a composition offset that may be negative.
CtsOffsets == {0 - 1, 0}

\* sample.data as delivered: a view (alias) on the adapter's own buffer.
AdapterPayload == [alias |-> TRUE, bytes |-> "payload"]

Samples ==
  { s \in [dts : 0..MaxFineDts, cts : 0..MaxFineDts, data : {AdapterPayload}] :
      s.cts - s.dts \in CtsOffsets }

Batches == UNION { [1..n -> Samples] : n \in 1..MaxSamples }

\* ------------------------------------------------------------ doubles
\* A JavaScript number is an IEEE-754 binary64: (-1)^neg * m * 2^e with m = 0
\* or 2^52 <= m < 2^53, every operation rounded to the nearest such number,
\* ties to the even m.  The significand m does not fit a model integer, so a
\* natural number is kept as its digits in base Limb, the least significant
\* digit first and the most significant digit not 0.
Limb == 16384
LimbBits == 14

RECURSIVE Pow2(_)
Pow2(n) == IF n = 0 THEN 1 ELSE 2 * Pow2(n - 1)

RECURSIVE Trim(_)
Trim(a) ==
  IF Len(a) > 0 /\ a[Len(a)] = 0 THEN Trim(SubSeq(a, 1, Len(a) - 1)) ELSE a

RECURSIVE NatOf(_)
NatOf(n) == IF n = 0 THEN << >> ELSE <<n % Limb>> \o NatOf(n \div Limb)

RECURSIVE IntOf(_)
IntOf(a) == IF Len(a) = 0 THEN 0 ELSE a[1] + Limb * IntOf(Tail(a))

At(a, i) == IF i <= Len(a) THEN a[i] ELSE 0

\* -1, 0 or 1 as a < b, a = b or a > b.
RECURSIVE CmpFrom(_, _, _)
CmpFrom(a, b, i) ==
  IF i = 0 THEN 0
  ELSE IF At(a, i) < At(b, i) THEN 0 - 1
  ELSE IF At(a, i) > At(b, i) THEN 1
  ELSE CmpFrom(a, b, i - 1)
Cmp(a, b) == CmpFrom(a, b, IF Len(a) > Len(b) THEN Len(a) ELSE Len(b))

RECURSIVE AddFrom(_, _, _, _)
AddFrom(a, b, i, carry) ==
  IF i > Len(a) /\ i > Len(b)
  THEN IF carry = 0 THEN << >> ELSE <<carry>>
  ELSE <<(At(a, i) + At(b, i) + carry) % Limb>>
         \o AddFrom(a, b, i + 1, (At(a, i) + At(b, i) + carry) \div Limb)
NatAdd(a, b) == AddFrom(a, b, 1, 0)

\* a - b for a >= b.
RECURSIVE SubFrom(_, _, _, _)
SubFrom(a, b, i, borrow) ==
  IF i > Len(a) THEN << >>
  ELSE IF At(a, i) - At(b, i) - borrow < 0
       THEN <<At(a, i) - At(b, i) - borrow + Limb>> \o SubFrom(a, b, i + 1, 1)
       ELSE <<At(a, i) - At(b, i) - borrow>> \o SubFrom(a, b, i + 1, 0)
NatSub(a, b) == Trim(SubFrom(a, b, 1, 0))

\* a * s for 0 <= s <= Limb.
RECURSIVE MulSmallFrom(_, _, _, _)
MulSmallFrom(a, s, i, carry) ==
  IF i > Len(a) THEN IF carry = 0 THEN << >> ELSE <<carry>>
  ELSE <<(a[i] * s + carry) % Limb>>
         \o MulSmallFrom(a, s, i + 1, (a[i] * s + carry) \div Limb)
MulSmall(a, s) == IF s = 0 THEN << >> ELSE MulSmallFrom(a, s, 1, 0)

RECURSIVE NatMulFrom(_, _, _)
NatMulFrom(a, b, i) ==
  IF i > Len(b) THEN << >>
  ELSE NatAdd(MulSmall(a, b[i]), Trim(<<0>> \o NatMulFrom(a, b, i + 1)))
NatMul(a, b) == IF Len(a) = 0 THEN << >> ELSE NatMulFrom(a, b, 1)

\* a * 2^n and floor(a / 2^n).
Shl(a, n) ==
  IF Len(a) = 0 THEN << >>
  ELSE [i \in 1..(n \div LimbBits) |-> 0] \o MulSmall(a, Pow2(n % LimbBits))
ShrBits(a, r) ==
  Trim([i \in 1..Len(a) |->
          a[i] \div Pow2(r) + (At(a, i + 1) % Pow2(r)) * Pow2(LimbBits - r)])
Shr(a, n) ==
  IF n \div LimbBits >= Len(a) THEN << >>
  ELSE ShrBits(SubSeq(a, n \div LimbBits + 1, Len(a)), n % LimbBits)

\* The number of bits of a.
RECURSIVE SmallBits(_)
SmallBits(n) == IF n = 0 THEN 0 ELSE 1 + SmallBits(n \div 2)
BitLen(a) ==
  IF Len(a) = 0 THEN 0 ELSE LimbBits * (Len(a) - 1) + SmallBits(a[Len(a)])

DZero == [neg |-> FALSE, m |-> << >>, e |-> 0]
TwoTo52 == Shl(<<1>>, 52)
TwoTo53 == Shl(<<1>>, 53)

\* quot * 2^e with a remainder rem out of unit left over: the nearest double,
\* ties to even.
Rounded(neg, quot, rem, unit, e) ==
  IF Cmp(MulSmall(rem, 2), unit) < 0
       \/ (Cmp(MulSmall(rem, 2), unit) = 0 /\ quot[1] % 2 = 0)
  THEN [neg |-> neg, m |-> quot, e |-> e]
  ELSE IF Cmp(NatAdd(quot, <<1>>), TwoTo53) = 0
       THEN [neg |-> neg, m |-> TwoTo52, e |-> e + 1]
       ELSE [neg |-> neg, m |-> NatAdd(quot, <<1>>), e |-> e]

\* The double nearest to p * 2^e for a natural p.
RoundPow2(neg, p, e) ==
  IF Len(p) = 0 THEN DZero
  ELSE IF BitLen(p) <= 53
       THEN [neg |-> neg, m |-> Shl(p, 53 - BitLen(p)),
             e |-> e - (53 - BitLen(p))]
       ELSE Rounded(neg, Shr(p, BitLen(p) - 53),
                    NatSub(p, Shl(Shr(p, BitLen(p) - 53), BitLen(p) - 53)),
                    Shl(<<1>>, BitLen(p) - 53), e + (BitLen(p) - 53))

\* A model integer as a double (exact below 2^53).
FromInt(n) == RoundPow2(n < 0, NatOf(IF n < 0 THEN 0 - n ELSE n), 0)

\* The bits of rem / t after the binary point, one per step: rem < t.
\* 2 * quot + 1.
TwicePlusOne(quot) ==
  IF Len(quot) = 0 THEN <<1>> ELSE [MulSmall(quot, 2) EXCEPT ![1] = @ + 1]

RECURSIVE DivSteps(_, _, _, _)
DivSteps(t, steps, quot, rem) ==
  IF steps = 0 \/ Len(quot) + Len(rem) < 0 THEN [quot |-> quot, rem |-> rem]
  ELSE IF Cmp(MulSmall(rem, 2), t) >= 0
       THEN DivSteps(t, steps - 1, TwicePlusOne(quot),
                     NatSub(MulSmall(rem, 2), t))
       ELSE DivSteps(t, steps - 1, MulSmall(quot, 2), MulSmall(rem, 2))

\* a / b for b # 0: the quotient of the significands, which lies between
\* 1/2 and 2, is developed to 53 bits and rounded.
DivRounded(neg, d, t, e) == Rounded(neg, d.quot, d.rem, t, e)
DDiv(a, b) ==
  IF Len(a.m) = 0 THEN DZero
  ELSE IF Cmp(a.m, b.m) >= 0
       THEN DivRounded(a.neg # b.neg,
                       DivSteps(b.m, 52, <<1>>, NatSub(a.m, b.m)),
                       b.m, a.e - b.e - 52)
       ELSE DivRounded(a.neg # b.neg, DivSteps(b.m, 53, << >>, a.m),
                       b.m, a.e - b.e - 53)

\* a * b.
DMul(a, b) == RoundPow2(a.neg # b.neg, NatMul(a.m, b.m), a.e + b.e)

\* The significand of a in units of 2^e, for e <= a.e.
Aligned(a, e) == Shl(a.m, a.e - e)

\* -1, 0 or 1 as a < b, a = b or a > b.
DCmpAt(a, b, e) ==
  IF a.neg THEN Cmp(Aligned(b, e), Aligned(a, e))
  ELSE Cmp(Aligned(a, e), Aligned(b, e))
DCmp(a, b) ==
  IF a = b THEN 0
  ELSE IF Len(a.m) = 0 THEN IF b.neg THEN 1 ELSE 0 - 1
  ELSE IF Len(b.m) = 0 THEN IF a.neg THEN 0 - 1 ELSE 1
  ELSE IF a.neg # b.neg THEN IF a.neg THEN 0 - 1 ELSE 1
  ELSE DCmpAt(a, b, IF a.e < b.e THEN a.e ELSE b.e)

\* a - b.
DSubAt(a, b, e) ==
  IF a.neg # b.neg
  THEN RoundPow2(a.neg, NatAdd(Aligned(a, e), Aligned(b, e)), e)
  ELSE IF Cmp(Aligned(a, e), Aligned(b, e)) >= 0
       THEN RoundPow2(a.neg, NatSub(Aligned(a, e), Aligned(b, e)), e)
       ELSE RoundPow2(~a.neg, NatSub(Aligned(b, e), Aligned(a, e)), e)
DSub(a, b) ==
  IF Len(b.m) = 0 THEN a
  ELSE IF Len(a.m) = 0 THEN [b EXCEPT !.neg = ~b.neg]
  ELSE DSubAt(a, b, IF a.e < b.e THEN a.e ELSE b.e)

\* Math.floor and Math.ceil of a double, where the result fits a model
\* integer.
FloorOfWhole(a, whole) ==
  IF ~a.neg THEN IntOf(whole)
  ELSE IF Cmp(Shl(whole, 0 - a.e), a.m) = 0 THEN 0 - IntOf(whole)
  ELSE 0 - IntOf(whole) - 1
Floor(a) ==
  IF a.e >= 0 THEN (IF a.neg THEN 0 - 1 ELSE 1) * IntOf(Shl(a.m, a.e))
  ELSE FloorOfWhole(a, Shr(a.m, 0 - a.e))
Ceil(a) == 0 - Floor([a EXCEPT !.neg = ~a.neg])

\* ------------------------------------------------------------ arithmetic
\* The segmentDuration argument as the caller writes it, num / den seconds,
\* and the number the function receives for it.
Seconds(n) == [num |-> n, den |-> 1]
Tenth == [num |-> 1, den |-> FineTimescale]
NumberOf(d) == DDiv(FromInt(d.num), FromInt(d.den))

\* The (timescale, segmentDuration) pairs of the calls.  The results of
\* lines 81, 123, 128 and 133-134 for the arguments the calls meet are worked
\* out once and kept (the tables named ...Known), and looked up (...At).
CutPairs ==
  { <<ts, Seconds(n)>> : ts \in 1..MaxTimescale, n \in 1..MaxSegDur }
    \cup { <<FineTimescale, Tenth>> }

\* Mutant: the segment count rounded down.
NumSegmentsFloor(info, d) ==
  Floor(DDiv(DDiv(FromInt(info.duration), FromInt(info.timescale)),
             NumberOf(d)))

\* cutVideo lines 77-81: Math.ceil((duration / timescale) / segmentDuration).
NumSegments(info, d) ==
  Ceil(DDiv(DDiv(FromInt(info.duration), FromInt(info.timescale)),
            NumberOf(d)))

NumSegmentsKnown ==
  [a \in (1..MaxDuration) \X CutPairs |->
     NumSegments([duration |-> a[1], timescale |-> a[2][1]], a[2][2])]
    @@ << >>
NumSegmentsAt(info, d) ==
  IF <<info.duration, <<info.timescale, d>>>> \in DOMAIN NumSegmentsKnown
  THEN NumSegmentsKnown[<<info.duration, <<info.timescale, d>>>>]
  ELSE NumSegments(info, d)

\* Mutant: only a negative duration is refused.
DurationNegativeOnly(info) ==
  DCmp(DDiv(FromInt(info.duration), FromInt(info.timescale)), DZero) < 0

\* cutVideo lines 77-78: duration / timescale <= 0.
DurationNotPositive(info) ==
  DCmp(DDiv(FromInt(info.duration), FromInt(info.timescale)), DZero) <= 0

DurationNotPositiveKnown ==
  [a \in ((0 - 1)..MaxDuration)
           \X ((1..MaxTimescale) \cup {FineTimescale}) |->
     DurationNotPositive([duration |-> a[1], timescale |-> a[2]])]
    @@ << >>
DurationNotPositiveAt(info) ==
  IF <<info.duration, info.timescale>> \in DOMAIN DurationNotPositiveKnown
  THEN DurationNotPositiveKnown[<<info.duration, info.timescale>>]
  ELSE DurationNotPositive(info)

\* cutVideo lines 122-123: Math.floor((dts / timescale) / segmentDuration).
SegmentIndex(dts, timescale, d) ==
  Floor(DDiv(DDiv(FromInt(dts), FromInt(timescale)), NumberOf(d)))

SegmentIndexKnown ==
  [a \in (0..MaxFineDts) \X CutPairs |-> SegmentIndex(a[1], a[2][1], a[2][2])]
    @@ << >>
SegmentIndexAt(dts, timescale, d) ==
  IF <<dts, <<timescale, d>>>> \in DOMAIN SegmentIndexKnown
  THEN SegmentIndexKnown[<<dts, <<timescale, d>>>>]
  ELSE SegmentIndex(dts, timescale, d)

\* Mutant: the segment start taken one segment late.
SegmentStartOneBased(segmentIndex, timescale, d) ==
  DMul(DMul(FromInt(segmentIndex + 1), NumberOf(d)), FromInt(timescale))

\* cutVideo line 128: segmentIndex * segmentDuration * timescale.
SegmentStart(segmentIndex, timescale, d) ==
  DMul(DMul(FromInt(segmentIndex), NumberOf(d)), FromInt(timescale))

SegmentStartKnown ==
  [a \in (0..MaxFineDts) \X CutPairs |-> SegmentStart(a[1], a[2][1], a[2][2])]
    @@ << >>
SegmentStartAt(segmentIndex, timescale, d) ==
  IF <<segmentIndex, <<timescale, d>>>> \in DOMAIN SegmentStartKnown
  THEN SegmentStartKnown[<<segmentIndex, <<timescale, d>>>>]
  ELSE SegmentStart(segmentIndex, timescale, d)

\* cutVideo lines 133-134: newSample.dts -= start, newSample.cts -= start.
Rebase(t, start) == DSub(FromInt(t), start)

RebaseKnown ==
  [a \in (0..MaxFineDts)
           \X { SegmentStartKnown[x] : x \in DOMAIN SegmentStartKnown } |->
     Rebase(a[1], a[2])]
    @@ << >>
RebaseAt(t, start) ==
  IF <<t, start>> \in DOMAIN RebaseKnown THEN RebaseKnown[<<t, start>>]
  ELSE Rebase(t, start)

\* ------------------------------------------------------------ adapter
\* MP4Box.createFile(): an empty container.
\* built counts the getBuffer calls made on it.
CreateFile == [tracks |-> << >>, samples |-> << >>, built |-> 0]

\* file.addTrack(options): the track is added under options.id.
AddTrack(file, options) == [file EXCEPT !.tracks = Append(@, options)]

\* Mutant: the sample is put in front of the track's samples.
AddSampleFront(file, trackId, sample) ==
  [file EXCEPT !.samples = <<[sample EXCEPT !.track = trackId]>> \o @]

\* file.addSample(trackId, data, sample).
AddSample(file, trackId, sample) ==
  [file EXCEPT !.samples = Append(@, [sample EXCEPT !.track = trackId])]

\* file.getBuffer(): the container is serialised.
GetBuffer(file) == [file EXCEPT !.built = @ + 1]

\* An ArrayBuffer as the code sees it: its bytes and the fileStart property
\* the code attaches.
FreshBuffer == [bytes |-> "media", fileStart |-> "unset"]
NoBuffer == [bytes |-> "none", fileStart |-> "unset"]

\* Mutant: the buffer itself is handed on.
SliceSame(buffer) ==
  [alias |-> TRUE, bytes |-> buffer.bytes, fileStart |-> buffer.fileStart]

\* buffer.slice(0): a new ArrayBuffer with the same bytes and no added
\* property; alias tells whether the object is the one it was made from.
Slice(buffer) ==
  [alias |-> FALSE, bytes |-> buffer.bytes, fileStart |-> "unset"]

\* lines 25-26, 57-58, 160-161: bufferCopy = buffer.slice(0) and
\* bufferCopy.fileStart = 0: the object passed to appendBuffer.
BufferCopy(buffer) == [Slice(buffer) EXCEPT !.fileStart = 0]

\* lines 27, 59, 162: appendBuffer(bufferCopy), seen from the buffer the copy
\* was made from.  The adapter may consume (detach) the object it is given;
\* that and the write of fileStart reach the buffer only through an alias.
AppendBuffer(buffer, consume) ==
  LET given == BufferCopy(buffer)
  IN IF given.alias
     THEN [bytes |-> IF consume THEN "detached" ELSE given.bytes,
           fileStart |-> given.fileStart]
     ELSE buffer

\* sample.data.slice(0): an independent copy of the payload.
SliceData(data) == [alias |-> FALSE, bytes |-> data.bytes]

\* The adapter writes the next payloads into its buffer: every view on it
\* now shows other bytes.
Overwritten(samples) ==
  [i \in 1..Len(samples) |->
     IF samples[i].data.alias
     THEN [samples[i] EXCEPT !.data.bytes = "overwritten"]
     ELSE samples[i]]

\* file.getBuffer().byteLength: the container's own boxes (hdr bytes once a
\* track was added) and one unit per sample payload.
ByteLength(file, hdr) ==
  (IF Len(file.tracks) > 0 THEN hdr ELSE 0) + Len(file.samples)

\* Mutant: a container without tracks settles nothing.
GetInfoSilent(info) ==
  IF info.outcome = "error" THEN Rejected(AdapterError)
  ELSE IF Len(info.tracks) = 0 THEN Pending
  ELSE Resolved(info)

\* getInfo lines 13-29: the promise as settled by onReady or onError.
GetInfo(info) ==
  IF info.outcome = "error" THEN Rejected(AdapterError)
  ELSE IF Len(info.tracks) = 0 THEN Rejected(InvalidContainer)
  ELSE Resolved(info)

\* ------------------------------------------------------------ cutVideo
\* lines 86-88 and 89-97: one file per segment, every source track mirrored
\* into every file with nb_samples and duration reset.
\* Mutant: the descriptor is rebuilt field by field and the codec
\* configuration is left out.
MirrorTrackNoCodec(track) ==
  [track EXCEPT !.nb_samples = 0, !.duration = 0, !.codec = "unset"]

\* line 93: { ...track, nb_samples: 0, duration: 0 }.
MirrorTrack(track) == [track EXCEPT !.nb_samples = 0, !.duration = 0]

RECURSIVE AddTracks(_, _, _)
AddTracks(file, tracks, i) ==
  IF i > Len(tracks) THEN file
  ELSE AddTracks(AddTrack(file, MirrorTrack(tracks[i])), tracks, i + 1)

SegmentFiles(n, tracks) == [i \in 1..n |-> AddTracks(CreateFile, tracks, 1)]

\* Mutant: every source track is mapped to the ids made for the first track.
TrackIdMapFirst(n, tracks) ==
  [id \in {tracks[i].id : i \in 1..Len(tracks)} |->
     [i \in 1..n |-> tracks[1].id]]

\* lines 89-97: trackIdMap.set(track.id, newTrackIds), the ids addTrack
\* returned for this track in each segment file.
TrackIdMap(n, tracks) ==
  [id \in {tracks[i].id : i \in 1..Len(tracks)} |-> [i \in 1..n |-> id]]

\* tracks.find(t => t.id === trackId): the index of the track, 0 if none.
FindTrack(tracks, trackId) ==
  IF \E i \in 1..Len(tracks) : tracks[i].id = trackId
  THEN CHOOSE i \in 1..Len(tracks) :
         /\ tracks[i].id = trackId
         /\ \A j \in 1..(i - 1) : tracks[j].id # trackId
  ELSE 0

\* Mutant: the first segment is excluded.
InRangeSkipFirst(segmentIndex, n) == segmentIndex > 0 /\ segmentIndex < n

\* line 125: segmentIndex >= 0 && segmentIndex < numSegments.
InRange(segmentIndex, n) == segmentIndex >= 0 /\ segmentIndex < n

\* lines 120-137: the loop of onSamples over one batch.  The appended record
\* has the timestamps the code writes, which are doubles, and keeps the
\* source track and timestamps as history fields (srcTrack, srcDts, srcCts),
\* which the code does not store.
RECURSIVE Distribute(_, _, _, _, _, _, _, _)
Distribute(files, newTrackIds, trackId, timescale, d, n, samples, i) ==
  IF i > Len(samples) THEN files
  ELSE
    LET sample == samples[i]
        segmentIndex == SegmentIndexAt(sample.dts, timescale, d)
    IN IF InRange(segmentIndex, n)
       THEN LET start == SegmentStartAt(segmentIndex, timescale, d)
                newSample == [track |-> 0,
                              dts |-> RebaseAt(sample.dts, start),
                              cts |-> RebaseAt(sample.cts, start),
                              data |-> SliceData(sample.data),
                              srcTrack |-> trackId,
                              srcDts |-> sample.dts,
                              srcCts |-> sample.cts]
                file == AddSample(files[segmentIndex + 1],
                                  newTrackIds[segmentIndex + 1], newSample)
            IN Distribute([files EXCEPT ![segmentIndex + 1] = file],
                          newTrackIds, trackId, timescale, d, n, samples, i + 1)
       ELSE Distribute(files, newTrackIds, trackId, timescale, d, n,
                       samples, i + 1)

\* String(n) for n >= 0, as a sequence of characters.
Digit(n) ==
  CASE n = 0 -> "0" [] n = 1 -> "1" [] n = 2 -> "2" [] n = 3 -> "3"
    [] n = 4 -> "4" [] n = 5 -> "5" [] n = 6 -> "6" [] n = 7 -> "7"
    [] n = 8 -> "8" [] n = 9 -> "9"

RECURSIVE StringOf(_)
StringOf(n) ==
  IF n < 10 THEN <<Digit(n)>> ELSE StringOf(n \div 10) \o <<Digit(n % 10)>>

\* s.padStart(2, '0').
PadStart2(s) ==
  IF Len(s) >= 2 THEN s
  ELSE IF Len(s) = 1 THEN <<"0">> \o s
  ELSE <<"0", "0">>

\* line 148: `clip_${String(i + 1).padStart(2, '0')}.mp4`, i counted from 0.
ClipName(i) ==
  <<"c", "l", "i", "p", "_">> \o PadStart2(StringOf(i + 1))
    \o <<".", "m", "p", "4">>

\* lines 142-150: the loop of onFlush.  i counts from 0 as in the code; nb is
\* the number of object URLs created so far.  A clip keeps the index of its
\* segment file as a history field (segment).
RECURSIVE BuildClips(_, _, _, _, _)
BuildClips(files, hdr, nb, i, acc) ==
  IF i >= Len(files) THEN acc
  ELSE IF ByteLength(files[i + 1], hdr) > 0
       THEN BuildClips(files, hdr, nb + 1, i + 1,
                       Append(acc, [url |-> [blob |-> nb + 1],
                                    name |-> ClipName(i),
                                    segment |-> i]))
       ELSE BuildClips(files, hdr, nb, i + 1, acc)

\* lines 152-156.
FlushOutcome(clips, n) ==
  IF Len(clips) = 0 /\ n > 0 THEN Rejected(ExtractionFailure)
  ELSE Resolved(clips)

\* ------------------------------------------------------------ state
NoInfo == [outcome |-> "error", duration |-> 0, timescale |-> 1,
           tracks |-> << >>]

\* Clips handed to combineVideos: every track in the clip's own timescale.
ClipInfos ==
  { c \in Infos(0, MaxClipDuration, TrackLists) :
      \A i \in 1..Len(c.tracks) : c.tracks[i].timescale = c.timescale }

InitCall ==
  /\ op \in {"cut", "combine"}
  /\ pc = "entry"
  /\ IF op = "cut"
     THEN /\ \/ /\ source \in Infos(0 - 1, MaxDuration, TrackLists)
                /\ segmentDuration \in {Seconds(n) : n \in 1..MaxSegDur}
             \/ /\ source \in FineInfos
                /\ segmentDuration = Tenth
          /\ videoUrls = << >>
          /\ contents = << >>
     ELSE /\ source = NoInfo
          /\ segmentDuration = Seconds(1)
          /\ \E n \in 0..MaxSources :
               /\ videoUrls = [i \in 1..n |-> [src |-> i]]
               /\ contents \in [1..n -> ClipInfos]
  /\ hdrLen = 0
  /\ infoPromise = Pending
  /\ numSegments = 0 - 1
  /\ segmentFiles = << >>
  /\ trackIdMap = << >>
  /\ delivered = << >>
  /\ errored = FALSE
  /\ flushes = 0
  /\ clipUrls = << >>
  /\ result = Pending
  /\ blobs = 0
  /\ outputFile = << >>
  /\ newTrackId = 0
  /\ accumulatedDuration = 0
  /\ k = 0
  /\ allSamples = << >>
  /\ samplesPromise = Pending
  /\ fetches = 0
  /\ parsers = 0
  /\ videoBuffer = IF op = "cut" THEN FreshBuffer ELSE NoBuffer
  /\ handed = << >>

\* No second call in flight.
ConcIdle == [heap |-> << >>, touched |-> << >>, call |-> << >>]

\* What pollVideoStatus of a render sees: size tells whether
\* activeGenerations is not empty, pollable whether one of its ids is a
\* scene with an operation in the scenes of that render, stale whether
\* that scene has been removed from scenes since.
NoClosure == [size |-> FALSE, pollable |-> FALSE, stale |-> FALSE]
Closure(a) ==
  [size |-> a.active \/ a.orphan,
   pollable |-> a.active /\ a.scene = "present" /\ a.operation # "none",
   stale |-> FALSE]

\* What pollTestVideoStatus of a render sees.
NoTestClosure == [operation |-> "none", progress |-> 0]
TestClosure(a) ==
  [operation |-> a.testVideoOperation, progress |-> a.testVideoProgress]

\* No interval is scheduled.
DeadTimer == [alive |-> FALSE, sees |-> NoClosure]
DeadTestTimer == [alive |-> FALSE, sees |-> NoTestClosure]

\* No effect is waiting to run.
NoEffect == [due |-> FALSE, sees |-> NoClosure]
NoTestEffect == [due |-> FALSE, sees |-> NoTestClosure]

\* Percentages checkVideoOperationStatus can report (0: none reported).
Progress == {0, 50}

\* The component after its first render and its effects: no scene yet.
AppStart ==
  [mounted |-> TRUE,
   scene |-> "none", isGeneratingScenes |-> FALSE, scenesPending |-> 0,
   sceneSets |-> 0,
   isGenerating |-> FALSE, operation |-> "none", videoUrl |-> "none",
   active |-> FALSE, orphan |-> FALSE,
   ref |-> "null", timer |-> DeadTimer, effect |-> NoEffect,
   checking |-> [cur |-> 0, old |-> 0], fetching |-> [cur |-> 0, old |-> 0],
   starting |-> 0, oldStarting |-> 0, imaging |-> 0, oldImaging |-> 0,
   starts |-> 0, polledOut |-> FALSE,
   isGeneratingTestVideo |-> FALSE, testVideoOperation |-> "none",
   testVideoUrl |-> "none", testVideoProgress |-> 0,
   testRef |-> "null", testTimer |-> DeadTestTimer,
   testEffect |-> NoTestEffect,
   testChecking |-> [p \in Progress |-> 0], testFetching |-> 0,
   testStarting |-> 0, testStarts |-> 0]

\* The App component is not mounted.
AppIdle == [AppStart EXCEPT !.mounted = FALSE]

\* One call of cutVideo or combineVideos, from its entry.
Init == InitCall /\ conc = ConcIdle /\ app = AppIdle

\* ------------------------------------------------------------ getInfo
\* The buffer the pending getInfo call parses.
Parsed == IF op = "cut" THEN source ELSE contents[k]

AfterInfo(p) ==
  CASE p = "cut.getInfo" -> "cut.afterInfo"
    [] p = "first.getInfo" -> "first.afterInfo"
    [] p = "loop.getInfo" -> "loop.afterInfo"

\* getInfo lines 17-22: the adapter calls onReady.
GetInfoOnReady ==
  /\ pc \in {"cut.getInfo", "first.getInfo", "loop.getInfo"}
  /\ Parsed.outcome = "ready"
  /\ infoPromise' = Settle(infoPromise, GetInfo(Parsed))
  /\ pc' = AfterInfo(pc)
  /\ UNCHANGED <<app, conc, bufferVars, op, cutVars, combineVars, delivered, errored, flushes,
                 result, hdrLen, blobs, parsers>>

\* getInfo line 16: the adapter calls onError.
GetInfoOnError ==
  /\ pc \in {"cut.getInfo", "first.getInfo", "loop.getInfo"}
  /\ Parsed.outcome = "error"
  /\ infoPromise' = Settle(infoPromise, GetInfo(Parsed))
  /\ pc' = AfterInfo(pc)
  /\ UNCHANGED <<app, conc, bufferVars, op, cutVars, combineVars, delivered, errored, flushes,
                 result, hdrLen, blobs, parsers>>

\* ------------------------------------------------------------ cutVideo
\* lines 72-75: the executor runs up to the await of getInfo(videoBuffer).
CutEntry ==
  /\ op = "cut"
  /\ pc = "entry"
  /\ infoPromise' = Pending
  /\ parsers' = parsers + 1
  /\ handed' = Append(handed, BufferCopy(videoBuffer))
  /\ \E consume \in BOOLEAN : videoBuffer' = AppendBuffer(videoBuffer, consume)
  /\ pc' = "cut.getInfo"
  /\ UNCHANGED <<app, conc, op, cutVars, combineVars, delivered, errored, flushes,
                 result, hdrLen, blobs>>

\* lines 75-100 and 160-163: after the await up to the hand-over of the
\* buffer copy to mainFile; a rejected getInfo or a non-positive duration
\* ends in the catch block (line 165).
CutSetup ==
  /\ pc = "cut.afterInfo"
  /\ infoPromise.state # "pending"
  /\ IF infoPromise.state = "rejected"
     THEN /\ result' = Settle(result, Rejected(infoPromise.error))
          /\ pc' = "done"
          /\ UNCHANGED <<numSegments, segmentFiles, trackIdMap, parsers,
                         bufferVars>>
     ELSE LET originalInfo == infoPromise.value
          IN IF DurationNotPositiveAt(originalInfo)
             THEN /\ result' = Settle(result, Rejected(InvalidDuration))
                  /\ pc' = "done"
                  /\ UNCHANGED <<numSegments, segmentFiles, trackIdMap,
                                 parsers, bufferVars>>
             ELSE LET n == NumSegmentsAt(originalInfo, segmentDuration)
                  IN /\ numSegments' = n
                     /\ segmentFiles' = SegmentFiles(n, originalInfo.tracks)
                     /\ trackIdMap' = TrackIdMap(n, originalInfo.tracks)
                     /\ parsers' = parsers + 1
                     /\ handed' = Append(handed, BufferCopy(videoBuffer))
                     /\ \E consume \in BOOLEAN :
                          videoBuffer' = AppendBuffer(videoBuffer, consume)
                     /\ pc' = "cut.parsing"
                     /\ UNCHANGED result
  /\ UNCHANGED <<app, conc, op, source, segmentDuration, clipUrls, combineVars,
                 infoPromise, delivered, errored, flushes, hdrLen, blobs>>

\* Mutant: the segment files are serialised as soon as the parser is ready.
MainOnReadyBuildsEarly ==
  /\ pc = "cut.parsing"
  /\ pc' = "cut.streaming"
  /\ segmentFiles' =
       [i \in 1..Len(segmentFiles) |-> GetBuffer(segmentFiles[i])]
  /\ UNCHANGED <<app, conc, bufferVars, op, source, segmentDuration, numSegments,
                 trackIdMap, clipUrls, combineVars, infoPromise, delivered,
                 errored, flushes, result, hdrLen, blobs, parsers>>

\* lines 103-109: mainFile.onReady sets the extraction options and starts.
MainOnReady ==
  /\ pc = "cut.parsing"
  /\ pc' = "cut.streaming"
  /\ UNCHANGED <<app, conc, bufferVars, op, cutVars, combineVars, infoPromise, delivered, errored,
                 flushes, result, hdrLen, blobs, parsers>>

\* line 101: mainFile.onError = reject.  The adapter goes on afterwards.
MainOnError ==
  /\ pc \in {"cut.parsing", "cut.streaming"}
  /\ ~errored
  /\ errored' = TRUE
  /\ result' = Settle(result, Rejected(AdapterError))
  /\ UNCHANGED <<app, conc, bufferVars, op, pc, cutVars, combineVars, infoPromise, delivered,
                 flushes, hdrLen, blobs, parsers>>

\* lines 112-138: mainFile.onSamples(trackId, user, samples).
OnSamples(trackId, samples) ==
  /\ pc = "cut.streaming"
  /\ Len(delivered) + Len(samples) <= MaxSamples
  /\ \A i \in 1..Len(samples) :
       samples[i].dts <= IF source.timescale = FineTimescale
                         THEN MaxFineDts ELSE MaxDts
  /\ delivered' = delivered \o
       [i \in 1..Len(samples) |->
          [track |-> trackId, dts |-> samples[i].dts, cts |-> samples[i].cts,
           data |-> samples[i].data]]
  /\ LET tracks == infoPromise.value.tracks
         t == FindTrack(tracks, trackId)
     IN IF t = 0 \/ trackId \notin DOMAIN trackIdMap
        THEN UNCHANGED segmentFiles
        ELSE segmentFiles' =
               Distribute(segmentFiles, trackIdMap[trackId], trackId,
                          tracks[t].timescale, segmentDuration, numSegments,
                          samples, 1)
  /\ UNCHANGED <<app, conc, bufferVars, op, pc, source, segmentDuration, numSegments, trackIdMap,
                 clipUrls, combineVars, infoPromise, errored, flushes, result,
                 hdrLen, blobs, parsers>>

\* lines 141-157: mainFile.onFlush: getBuffer on every segment file (line
\* 144), then the clip list.  The adapter fixes the size of the boxes it
\* writes around the samples when it builds the first buffer.  The handler
\* stays installed: it runs again whenever the adapter signals completion
\* again, with no sample delivered in between.
OnFlush(hdr) ==
  /\ \/ pc \in {"cut.parsing", "cut.streaming"}
     \/ pc = "cut.flushed" /\ flushes < MaxFlushes /\ hdr = hdrLen
  /\ hdrLen' = hdr
  /\ segmentFiles' =
       [i \in 1..Len(segmentFiles) |-> GetBuffer(segmentFiles[i])]
  /\ LET clips == BuildClips(segmentFiles, hdr, blobs, 0, << >>)
     IN /\ clipUrls' = clips
        /\ blobs' = blobs + Len(clips)
        /\ result' = Settle(result, FlushOutcome(clips, numSegments))
  /\ flushes' = flushes + 1
  /\ pc' = "cut.flushed"
  /\ UNCHANGED <<app, conc, bufferVars, op, source, segmentDuration, numSegments,
                 trackIdMap, combineVars, infoPromise, delivered, errored,
                 parsers>>

\* ------------------------------------------------------------ getSamples
\* getSamples lines 40-47: onReady of the extraction parser.
SamplesOnReady ==
  /\ pc = "loop.parsing"
  /\ IF Len(contents[k].tracks) = 0
     THEN /\ samplesPromise' =
               Settle(samplesPromise, Rejected(InvalidContainerSamples))
          /\ pc' = "loop.afterSamples"
     ELSE /\ pc' = "loop.streaming"
          /\ UNCHANGED samplesPromise
  /\ UNCHANGED <<app, conc, bufferVars, op, cutVars, videoUrls, contents, outputFile, newTrackId,
                 accumulatedDuration, k, allSamples, fetches, infoPromise,
                 delivered, errored, flushes, result, hdrLen, blobs, parsers>>

\* getSamples lines 49-51: allSamples.push(...samples), whatever the id.
SamplesOnSamples(samples) ==
  /\ pc = "loop.streaming"
  /\ Len(outputFile[1].samples) + Len(allSamples) + Len(samples) <= MaxSamples
  /\ \A i \in 1..Len(samples) : samples[i].dts <= MaxDts
  /\ allSamples' = allSamples \o samples
  /\ UNCHANGED <<app, conc, bufferVars, op, pc, cutVars, videoUrls, contents, outputFile, newTrackId,
                 accumulatedDuration, k, samplesPromise, fetches, infoPromise,
                 delivered, errored, flushes, result, hdrLen, blobs, parsers>>

\* getSamples line 38: mp4boxfile.onError = reject.
SamplesOnError ==
  /\ pc \in {"loop.parsing", "loop.streaming"}
  /\ samplesPromise' = Settle(samplesPromise, Rejected(AdapterError))
  /\ pc' = "loop.afterSamples"
  /\ UNCHANGED <<app, conc, bufferVars, op, cutVars, videoUrls, contents, outputFile, newTrackId,
                 accumulatedDuration, k, allSamples, fetches, infoPromise,
                 delivered, errored, flushes, result, hdrLen, blobs, parsers>>

\* getSamples lines 53-55: onFlush resolves with allSamples.
SamplesOnFlush ==
  /\ pc = "loop.streaming"
  /\ samplesPromise' = Settle(samplesPromise, Resolved(allSamples))
  /\ pc' = "loop.afterSamples"
  /\ UNCHANGED <<app, conc, bufferVars, op, cutVars, videoUrls, contents, outputFile, newTrackId,
                 accumulatedDuration, k, allSamples, fetches, infoPromise,
                 delivered, errored, flushes, result, hdrLen, blobs, parsers>>

\* The adapter of the running getSamples call goes on parsing and reuses the
\* buffer its delivered sample.data are views on.  The samples pushed at line
\* 50 are the adapter's objects, so allSamples holds such views.
AdapterReuse ==
  /\ pc = "loop.streaming"
  /\ \E i \in 1..Len(allSamples) : allSamples[i].data = AdapterPayload
  /\ allSamples' = Overwritten(allSamples)
  /\ UNCHANGED <<app, conc, bufferVars, op, pc, cutVars, videoUrls, contents, outputFile,
                 newTrackId, accumulatedDuration, k, samplesPromise, fetches,
                 infoPromise, delivered, errored, flushes, result, hdrLen,
                 blobs, parsers>>

\* ------------------------------------------------------------ combineVideos
\* Mutants: a guard of lines 176-177 is missing.
EntryGuardNoSingle(urls) == IF Len(urls) = 0 THEN "empty" ELSE "many"
EntryGuardNoEmpty(urls) == IF Len(urls) = 1 THEN "single" ELSE "many"

\* lines 176-177: which way the guards send the call.
EntryGuard(urls) ==
  IF Len(urls) = 0 THEN "empty"
  ELSE IF Len(urls) = 1 THEN "single"
  ELSE "many"

\* lines 176-183: the guards, createFile and the first fetch.
CombineEntry ==
  /\ op = "combine"
  /\ pc = "entry"
  /\ IF EntryGuard(videoUrls) = "empty"
     THEN /\ result' = Settle(result, Rejected(EmptyInput))
          /\ pc' = "done"
          /\ UNCHANGED <<outputFile, accumulatedDuration, k, fetches>>
     ELSE IF EntryGuard(videoUrls) = "single"
     THEN /\ result' = Settle(result, Resolved(videoUrls[1]))
          /\ pc' = "done"
          /\ UNCHANGED <<outputFile, accumulatedDuration, k, fetches>>
     ELSE /\ outputFile' = <<CreateFile>>
          /\ accumulatedDuration' = 0
          /\ k' = 1
          /\ fetches' = fetches + 1
          /\ pc' = "first.fetch"
          /\ UNCHANGED result
  /\ UNCHANGED <<app, conc, bufferVars, op, cutVars, videoUrls, contents, newTrackId, allSamples,
                 samplesPromise, infoPromise, delivered, errored, flushes,
                 hdrLen, blobs, parsers>>

\* lines 183-184 and 200-201: the fetched buffer, a new ArrayBuffer, goes to
\* getInfo.
Fetched ==
  /\ pc \in {"first.fetch", "loop.fetch"}
  /\ infoPromise' = Pending
  /\ parsers' = parsers + 1
  /\ handed' = Append(handed, BufferCopy(FreshBuffer))
  /\ \E consume \in BOOLEAN : videoBuffer' = AppendBuffer(FreshBuffer, consume)
  /\ pc' = IF pc = "first.fetch" THEN "first.getInfo" ELSE "loop.getInfo"
  /\ UNCHANGED <<app, conc, op, cutVars, combineVars, delivered, errored, flushes,
                 result, hdrLen, blobs>>

\* lines 183 and 200: fetch(url).then(res => res.arrayBuffer()) rejects; the
\* await throws and the call is rejected with that error.  No parser is
\* made and nothing is handed on.
FetchRejects ==
  /\ pc \in {"first.fetch", "loop.fetch"}
  /\ result' = Settle(result, Rejected(FetchFailure))
  /\ pc' = "done"
  /\ UNCHANGED <<app, conc, bufferVars, op, cutVars, combineVars, infoPromise,
                 delivered, errored, flushes, hdrLen, blobs, parsers>>

\* lines 188-196: the options of the one destination track.
CombinedTrack(firstTrack) ==
  [firstTrack EXCEPT !.id = 1, !.created = "now", !.modified = "now",
                     !.nb_samples = 0, !.duration = 0]

\* lines 184-200: after getInfo of the first url: addTrack, then the loop
\* starts with the fetch of videoUrls[0].
CombineAddTrack ==
  /\ pc = "first.afterInfo"
  /\ infoPromise.state # "pending"
  /\ IF infoPromise.state = "rejected"
     THEN /\ result' = Settle(result, Rejected(infoPromise.error))
          /\ pc' = "done"
          /\ UNCHANGED <<outputFile, newTrackId, k, fetches>>
     ELSE LET firstTrack == infoPromise.value.tracks[1]
          IN /\ outputFile' =
                  <<AddTrack(outputFile[1], CombinedTrack(firstTrack))>>
             /\ newTrackId' = CombinedTrack(firstTrack).id
             /\ k' = 1
             /\ fetches' = fetches + 1
             /\ pc' = "loop.fetch"
             /\ UNCHANGED result
  /\ UNCHANGED <<app, conc, bufferVars, op, cutVars, videoUrls, contents, accumulatedDuration,
                 allSamples, samplesPromise, infoPromise, delivered, errored,
                 flushes, hdrLen, blobs, parsers>>

\* Mutant: a url whose getInfo fails is skipped and what was built so far is
\* returned.
LoopGetSamplesSkipBad ==
  /\ pc = "loop.afterInfo"
  /\ infoPromise.state # "pending"
  /\ IF infoPromise.state = "rejected"
     THEN /\ blobs' = blobs + 1
          /\ result' = Settle(result, Resolved([blob |-> blobs + 1]))
          /\ pc' = "done"
          /\ UNCHANGED <<allSamples, samplesPromise, parsers, bufferVars>>
     ELSE /\ allSamples' = << >>
          /\ samplesPromise' = Pending
          /\ parsers' = parsers + 1
          /\ handed' = Append(handed, BufferCopy(videoBuffer))
          /\ \E consume \in BOOLEAN :
               videoBuffer' = AppendBuffer(videoBuffer, consume)
          /\ pc' = "loop.parsing"
          /\ UNCHANGED <<result, blobs>>
  /\ UNCHANGED <<app, conc, op, cutVars, videoUrls, contents, outputFile, newTrackId,
                 accumulatedDuration, k, fetches, infoPromise, delivered,
                 errored, flushes, hdrLen>>

\* Mutant: a url in another timescale than the first is refused.
LoopGetSamplesValidates ==
  /\ pc = "loop.afterInfo"
  /\ infoPromise.state # "pending"
  /\ IF \/ infoPromise.state = "rejected"
        \/ infoPromise.value.timescale # contents[1].timescale
     THEN /\ result' = Settle(result,
                 Rejected(IF infoPromise.state = "rejected"
                          THEN infoPromise.error ELSE "FormatMismatch"))
          /\ blobs' = blobs
          /\ pc' = "done"
          /\ UNCHANGED <<allSamples, samplesPromise, parsers, bufferVars>>
     ELSE /\ allSamples' = << >>
          /\ samplesPromise' = Pending
          /\ parsers' = parsers + 1
          /\ handed' = Append(handed, BufferCopy(videoBuffer))
          /\ \E consume \in BOOLEAN :
               videoBuffer' = AppendBuffer(videoBuffer, consume)
          /\ pc' = "loop.parsing"
          /\ UNCHANGED <<result, blobs>>
  /\ UNCHANGED <<app, conc, op, cutVars, videoUrls, contents, outputFile, newTrackId,
                 accumulatedDuration, k, fetches, infoPromise, delivered,
                 errored, flushes, hdrLen>>

\* lines 201-202: after getInfo(buffer) in the loop: getSamples(buffer).
LoopGetSamples ==
  /\ pc = "loop.afterInfo"
  /\ infoPromise.state # "pending"
  /\ IF infoPromise.state = "rejected"
     THEN /\ result' = Settle(result, Rejected(infoPromise.error))
          /\ pc' = "done"
          /\ UNCHANGED <<allSamples, samplesPromise, parsers, bufferVars>>
     ELSE /\ allSamples' = << >>
          /\ samplesPromise' = Pending
          /\ parsers' = parsers + 1
          /\ handed' = Append(handed, BufferCopy(videoBuffer))
          /\ \E consume \in BOOLEAN :
               videoBuffer' = AppendBuffer(videoBuffer, consume)
          /\ pc' = "loop.parsing"
          /\ UNCHANGED result
  /\ UNCHANGED <<app, conc, op, cutVars, videoUrls, contents, outputFile, newTrackId,
                 accumulatedDuration, k, fetches, infoPromise, delivered,
                 errored, flushes, hdrLen, blobs>>

\* lines 204-210: every sample is offset and appended.  The appended record
\* keeps its source url index and timestamps as history fields (src, srcDts,
\* srcCts).
RECURSIVE AppendAll(_, _, _, _, _, _)
AppendAll(file, trackId, samples, offset, src, i) ==
  IF i > Len(samples) THEN file
  ELSE LET sample == samples[i]
           moved == [track |-> 0,
                     dts |-> sample.dts + offset,
                     cts |-> sample.cts + offset,
                     data |-> sample.data,
                     src |-> src,
                     srcDts |-> sample.dts,
                     srcCts |-> sample.cts]
       IN AppendAll(AddSample(file, trackId, moved), trackId, samples,
                    offset, src, i + 1)

\* lines 207-208: sample.dts += accumulatedDuration and sample.cts +=
\* accumulatedDuration write into the sample objects getSamples resolved
\* with: the list allSamples holds reads the offset timestamps afterwards.
OffsetInPlace(samples, offset) ==
  [i \in 1..Len(samples) |->
     [samples[i] EXCEPT !.dts = @ + offset, !.cts = @ + offset]]

\* Mutant: the offset advances by the duration in seconds.
NextOffsetSeconds(acc, info) == acc + info.duration \div info.timescale

\* line 213: accumulatedDuration += info.duration.
NextOffset(acc, info) == acc + info.duration

\* lines 202-219: after getSamples: the append loop, the accumulation, then
\* the next fetch or the final buffer and its object URL.
CombineAppend ==
  /\ pc = "loop.afterSamples"
  /\ samplesPromise.state # "pending"
  /\ IF samplesPromise.state = "rejected"
     THEN /\ result' = Settle(result, Rejected(samplesPromise.error))
          /\ pc' = "done"
          /\ UNCHANGED <<outputFile, accumulatedDuration, k, fetches, blobs,
                         allSamples, samplesPromise>>
     ELSE /\ allSamples' =
               OffsetInPlace(samplesPromise.value, accumulatedDuration)
          /\ samplesPromise' =
               [samplesPromise EXCEPT
                  !.value = OffsetInPlace(@, accumulatedDuration)]
          /\ LET appended ==
                    AppendAll(outputFile[1], newTrackId, samplesPromise.value,
                              accumulatedDuration, k, 1)
             IN outputFile' = IF k < Len(videoUrls) THEN <<appended>>
                              ELSE <<GetBuffer(appended)>>
          /\ accumulatedDuration' =
               NextOffset(accumulatedDuration, infoPromise.value)
          /\ IF k < Len(videoUrls)
             THEN /\ k' = k + 1
                  /\ fetches' = fetches + 1
                  /\ pc' = "loop.fetch"
                  /\ UNCHANGED <<result, blobs>>
             ELSE /\ blobs' = blobs + 1
                  /\ result' = Settle(result, Resolved([blob |-> blobs + 1]))
                  /\ pc' = "done"
                  /\ UNCHANGED <<k, fetches>>
  /\ UNCHANGED <<app, conc, bufferVars, op, cutVars, videoUrls, contents,
                 newTrackId, infoPromise, delivered, errored, flushes,
                 hdrLen, parsers>>

\* ------------------------------------------------------------ specification
Next ==
  \/ CutEntry
  \/ GetInfoOnReady
  \/ GetInfoOnError
  \/ CutSetup
  \/ MainOnReady
  \/ MainOnError
  \/ /\ pc = "cut.streaming"
     /\ \E trackId \in 1..MaxTracks, samples \in Batches :
          OnSamples(trackId, samples)
  \/ \E hdr \in 0..MaxHdr : OnFlush(hdr)
  \/ CombineEntry
  \/ Fetched
  \/ FetchRejects
  \/ CombineAddTrack
  \/ LoopGetSamples
  \/ SamplesOnReady
  \/ /\ pc = "loop.streaming"
     /\ \E samples \in Batches : SamplesOnSamples(samples)
  \/ SamplesOnError
  \/ SamplesOnFlush
  \/ AdapterReuse
  \/ CombineAppend

Spec == Init /\ [][Next]_vars

\* The event loop runs every continuation that is ready, and the adapter, once
\* fed a buffer (and flushed, lines 59 and 163), calls one of the handlers
\* installed on it: a step that can be taken is eventually taken.
FairSpec == Spec /\ WF_vars(Next)

\* ------------------------------------------------------------ two calls
\* Two calls of cutVideo and/or combineVideos whose steps interleave.  A
\* call suspends only at an await or between adapter callbacks, so each
\* action below is one run of synchronous code.  conc.heap holds every
\* container MP4Box.createFile() has returned, conc.call[c] the locals of
\* call c (refs: the containers its locals segmentFiles / outputFile point
\* to), conc.touched[i] the calls that have called a method on container i
\* (history).
callVars == <<op, pc, source, segmentDuration, infoPromise, numSegments,
              segmentFiles, trackIdMap, delivered, errored, flushes, clipUrls,
              result, hdrLen, blobs, videoUrls, contents, outputFile,
              newTrackId, accumulatedDuration, k, allSamples, samplesPromise,
              fetches, parsers, videoBuffer, handed>>

\* The one track of the sources of the two calls.
ConcTrack ==
  [id |-> 1, timescale |-> 1, codec |-> CodecOf(1), nb_samples |-> 1,
   duration |-> 1, created |-> "source", modified |-> "source"]

ConcSamples == { sm \in Samples : sm.cts = sm.dts /\ sm.dts <= 1 }

\* The arguments of a call with what the adapter delivers for them: a cut of
\* a source of 2 seconds into segments of 1 second, whose samples arrive in
\* two onSamples callbacks, or a combine of two clips of one sample each.
ConcCalls ==
  [kind : {"cut"}, samples : [1..2 -> ConcSamples], clips : {<< >>}]
  \cup
  [kind : {"combine"}, samples : {<< >>},
   clips : [1..2 -> [duration : 1..MaxClipDuration, timescale : {1},
                     samples : [1..1 -> ConcSamples]]]]

ConcStart(in) ==
  [kind |-> in.kind, samples |-> in.samples, clips |-> in.clips,
   pc |-> "entry", refs |-> << >>, acc |-> 0, k |-> 0, out |-> << >>]

ConcInit ==
  /\ InitCall
  /\ op = "combine" /\ videoUrls = << >>
  /\ \E in1, in2 \in ConcCalls :
       conc = [heap |-> << >>, touched |-> << >>,
               call |-> <<ConcStart(in1), ConcStart(in2)>>]
  /\ app = AppIdle

\* Mutant: one container made at module load is handed to every caller.
NewFileSingleton(heap) == 1

\* MP4Box.createFile() inside the function bodies (lines 87, 179): the place
\* of a container no call has seen before.
NewFile(heap) == Len(heap) + 1

\* The heap after createFile() has returned the container at place id.
Created(heap, id) == IF id > Len(heap) THEN Append(heap, CreateFile) ELSE heap
CreatedMark(touched, id) ==
  IF id > Len(touched) THEN Append(touched, {}) ELSE touched

\* Call c has called a method on the containers at the places in ids.
Touch(touched, ids, c) ==
  [i \in 1..Len(touched) |->
     IF \E j \in 1..Len(ids) : ids[j] = i THEN touched[i] \cup {c}
     ELSE touched[i]]

\* The containers a call's locals point to, and the heap after the call has
\* put files back at those places.
Deref(heap, refs) == [i \in 1..Len(refs) |-> heap[refs[i]]]

RECURSIVE Store(_, _, _, _)
Store(heap, refs, files, i) ==
  IF i > Len(refs) THEN heap
  ELSE Store([heap EXCEPT ![refs[i]] = files[i]], refs, files, i + 1)

\* cutVideo lines 84-97, after the await of getInfo: two segment files with
\* the source track mirrored into each.
ConcCutSetup(c) ==
  LET me == conc.call[c]
      id1 == NewFile(conc.heap)
      heap1 == Created(conc.heap, id1)
      id2 == NewFile(heap1)
      heap2 == Created(heap1, id2)
      refs == <<id1, id2>>
      files == [i \in 1..2 |->
                  AddTrack(heap2[refs[i]], MirrorTrack(ConcTrack))]
  IN /\ me.kind = "cut" /\ me.pc = "entry"
     /\ conc' = [heap |-> Store(heap2, refs, files, 1),
                 touched |-> Touch(CreatedMark(CreatedMark(conc.touched, id1),
                                               id2), refs, c),
                 call |-> [conc.call EXCEPT ![c].pc = "streaming",
                                            ![c].refs = refs, ![c].k = 1]]
     /\ UNCHANGED <<app, callVars>>

\* cutVideo lines 112-138: one onSamples callback of call c.
ConcOnSamples(c) ==
  LET me == conc.call[c]
      files == Distribute(Deref(conc.heap, me.refs), <<ConcTrack.id,
                          ConcTrack.id>>, ConcTrack.id, ConcTrack.timescale,
                          Seconds(1), 2, <<me.samples[me.k]>>, 1)
  IN /\ me.kind = "cut" /\ me.pc = "streaming" /\ me.k <= Len(me.samples)
     /\ conc' = [heap |-> Store(conc.heap, me.refs, files, 1),
                 touched |-> Touch(conc.touched, me.refs, c),
                 call |-> [conc.call EXCEPT ![c].k = me.k + 1]]
     /\ UNCHANGED <<app, callVars>>

\* cutVideo lines 141-157: onFlush of call c: every segment file serialised.
ConcOnFlush(c) ==
  LET me == conc.call[c]
      files == [i \in 1..Len(me.refs) |-> GetBuffer(conc.heap[me.refs[i]])]
  IN /\ me.kind = "cut" /\ me.pc = "streaming" /\ me.k > Len(me.samples)
     /\ conc' = [heap |-> Store(conc.heap, me.refs, files, 1),
                 touched |-> Touch(conc.touched, me.refs, c),
                 call |-> [conc.call EXCEPT ![c].pc = "done",
                                            ![c].out = files]]
     /\ UNCHANGED <<app, callVars>>

\* combineVideos lines 179-183: createFile, accumulatedDuration = 0, up to
\* the await of the first fetch.
ConcCombineEntry(c) ==
  LET me == conc.call[c]
      id == NewFile(conc.heap)
  IN /\ me.kind = "combine" /\ me.pc = "entry"
     /\ conc' = [heap |-> Created(conc.heap, id),
                 touched |-> CreatedMark(conc.touched, id),
                 call |-> [conc.call EXCEPT ![c].pc = "first",
                                            ![c].refs = <<id>>,
                                            ![c].acc = 0]]
     /\ UNCHANGED <<app, callVars>>

\* combineVideos lines 184-200: addTrack, up to the await of the loop's
\* first fetch.
ConcCombineAddTrack(c) ==
  LET me == conc.call[c]
      file == AddTrack(conc.heap[me.refs[1]], CombinedTrack(ConcTrack))
  IN /\ me.kind = "combine" /\ me.pc = "first"
     /\ conc' = [heap |-> Store(conc.heap, me.refs, <<file>>, 1),
                 touched |-> Touch(conc.touched, me.refs, c),
                 call |-> [conc.call EXCEPT ![c].pc = "loop", ![c].k = 1]]
     /\ UNCHANGED <<app, callVars>>

\* combineVideos lines 204-219: the samples of clip k appended, the offset
\* advanced, then the next fetch or the final buffer.
ConcCombineAppend(c) ==
  LET me == conc.call[c]
      clip == me.clips[me.k]
      appended == AppendAll(conc.heap[me.refs[1]], CombinedTrack(ConcTrack).id,
                            clip.samples, me.acc, me.k, 1)
      last == me.k = Len(me.clips)
      file == IF last THEN GetBuffer(appended) ELSE appended
  IN /\ me.kind = "combine" /\ me.pc = "loop"
     /\ conc' = [heap |-> Store(conc.heap, me.refs, <<file>>, 1),
                 touched |-> Touch(conc.touched, me.refs, c),
                 call |-> [conc.call EXCEPT
                             ![c].acc = NextOffset(me.acc, clip),
                             ![c].k = me.k + 1,
                             ![c].pc = IF last THEN "done" ELSE "loop",
                             ![c].out = IF last THEN <<file>> ELSE << >>]]
     /\ UNCHANGED <<app, callVars>>

ConcNext ==
  \E c \in 1..2 :
    \/ ConcCutSetup(c)
    \/ ConcOnSamples(c)
    \/ ConcOnFlush(c)
    \/ ConcCombineEntry(c)
    \/ ConcCombineAddTrack(c)
    \/ ConcCombineAppend(c)

ConcSpec == ConcInit /\ [][ConcNext]_vars

\* What a call with these arguments builds when no other call runs.
Alone(in) ==
  IF in.kind = "cut"
  THEN LET files == Distribute(SegmentFiles(2, <<ConcTrack>>),
                               <<ConcTrack.id, ConcTrack.id>>, ConcTrack.id,
                               ConcTrack.timescale, Seconds(1), 2,
                               in.samples, 1)
       IN [i \in 1..2 |-> GetBuffer(files[i])]
  ELSE LET file0 == AddTrack(CreateFile, CombinedTrack(ConcTrack))
           file1 == AppendAll(file0, 1, in.clips[1].samples, 0, 1, 1)
           file2 == AppendAll(file1, 1, in.clips[2].samples,
                              in.clips[1].duration, 2, 1)
       IN <<GetBuffer(file2)>>


\* ------------------------------------------------------- the App component
\* The scenes, the test video and the two polling effects of the App
\* component.  scenes holds at most one scene at a time (the current one);
\* a scene that handleGenerateScenes has removed is the old one, and what
\* is still in flight for it goes on.  A handler that awaits is split at
\* its awaits.  The updates a handler makes in one synchronous stretch are
\* rendered together at its end; the effects of that render (clean-up, then
\* body) run later, in RunEffects, or at the latest before the next render,
\* and see the values of the render that scheduled them.  An interval fires
\* whether or not an earlier poll is still awaiting; at most MaxPolls polls
\* of each kind are in flight; a scene's Generate button is pressed at most
\* MaxStarts times, Generate Test Video at most MaxTestStarts times and
\* Generate Scene Prompts at most MaxSceneSets times.

AppInit ==
  /\ InitCall
  /\ op = "combine"
  /\ videoUrls = << >>
  /\ conc = ConcIdle
  /\ app = AppStart

\* One run of the effect that schedules pollVideoStatus: the clean-up of
\* the previous run clears the interval and leaves the ref as it is, then
\* the body runs with the activeGenerations of its render.  The interval
\* calls the pollVideoStatus of that render.
PollingEffect(a) ==
  LET cleaned == IF a.ref = "set" THEN [a EXCEPT !.timer = DeadTimer] ELSE a
      sees == a.effect.sees
  IN IF sees.size /\ cleaned.ref = "null"
     THEN [cleaned EXCEPT !.ref = "set",
                          !.timer = [alive |-> TRUE, sees |-> sees]]
     ELSE IF ~sees.size /\ cleaned.ref = "set"
          THEN [cleaned EXCEPT !.ref = "null", !.timer = DeadTimer]
          ELSE cleaned

\* One run of the effect that schedules pollTestVideoStatus.
TestPollingEffect(a) ==
  LET cleaned == IF a.testRef = "set"
                 THEN [a EXCEPT !.testTimer = DeadTestTimer] ELSE a
      sees == a.testEffect.sees
  IN IF sees.operation # "none" /\ cleaned.testRef = "null"
     THEN [cleaned EXCEPT !.testRef = "set",
                          !.testTimer = [alive |-> TRUE, sees |-> sees]]
     ELSE cleaned

\* The effects that are due run, the test video's first (it is declared
\* first).
Flush(a) ==
  LET a1 == IF a.testEffect.due
            THEN [TestPollingEffect(a) EXCEPT !.testEffect = NoTestEffect]
            ELSE a
  IN IF a1.effect.due
     THEN [PollingEffect(a1) EXCEPT !.effect = NoEffect]
     ELSE a1

\* The render after a handler's updates: before is the state the handler
\* found, after the state it left.  The effects still due from the render
\* before run first.  scenesSet says that setScenes or setActiveGenerations
\* was called (each makes a new array or set, so pollVideoStatus is a new
\* function), testSet that setTestVideoOperation was given a new operation
\* object; a change of testVideoOperation or testVideoProgress re-runs the
\* test effect as well.  Once the component is unmounted an update is
\* still recorded, and no effect runs for it.
Render(before, after, scenesSet, testSet) ==
  LET flushed == Flush(after)
      a1 == IF scenesSet
            THEN [flushed EXCEPT !.effect =
                                   [due |-> TRUE, sees |-> Closure(flushed)]]
            ELSE flushed
  IN IF ~after.mounted THEN after
     ELSE IF \/ testSet
             \/ before.testVideoOperation # after.testVideoOperation
             \/ before.testVideoProgress # after.testVideoProgress
          THEN [a1 EXCEPT !.testEffect =
                            [due |-> TRUE, sees |-> TestClosure(a1)]]
          ELSE a1

\* The effects of the last render run.
RunEffects ==
  /\ app.mounted
  /\ app.effect.due \/ app.testEffect.due
  /\ app' = Flush(app)
  /\ UNCHANGED <<conc, callVars>>

\* The component is unmounted: the clean-ups of the effects that have run
\* clear their intervals (lines 749-753 and 764-768), an interval whose id
\* the ref no longer holds goes on firing, and the awaits in flight still
\* settle afterwards and make their updates.
Unmount ==
  /\ app.mounted
  /\ app' = [app EXCEPT
               !.mounted = FALSE,
               !.timer = IF app.ref = "set" THEN DeadTimer ELSE @,
               !.testTimer = IF app.testRef = "set" THEN DeadTestTimer ELSE @,
               !.effect = NoEffect, !.testEffect = NoTestEffect]
  /\ UNCHANGED <<conc, callVars>>

\* haltAllGenerations, which handleApiError calls in each of its branches.
HaltAllGenerations(a) ==
  [a EXCEPT !.active = FALSE, !.orphan = FALSE,
            !.isGenerating = FALSE, !.operation = "none",
            !.isGeneratingScenes = FALSE,
            !.isGeneratingTestVideo = FALSE, !.testVideoOperation = "none"]

\* handleApiError called from a handler that is not modelled further
\* (lines 207, 315, 333, 367, 441, 531).
HandleApiError ==
  /\ app.mounted
  /\ app' = Render(app, HaltAllGenerations(app), TRUE, FALSE)
  /\ UNCHANGED <<conc, callVars>>

\* A handler gives scenes a new identity without changing what is tracked
\* here: handleSceneSummaryChange, and likewise handleSavePromptChanges
\* (566), handleGenerateSceneAudio (304, 312, 317) and
\* handleGenerateScenePreview (528, 532).
HandleSceneSummaryChange ==
  /\ app.mounted
  /\ app' = Render(app, app, TRUE, FALSE)
  /\ UNCHANGED <<conc, callVars>>

\* The current scene leaves scenes: its id may stay in activeGenerations,
\* and its calls in flight go on for an id no scene has.
Removed(a) ==
  [a EXCEPT !.scene = "none",
            !.isGenerating = FALSE, !.operation = "none",
            !.videoUrl = "none", !.polledOut = FALSE,
            !.orphan = a.orphan \/ a.active, !.active = FALSE,
            !.oldStarting = a.oldStarting + a.starting, !.starting = 0,
            !.oldImaging = a.oldImaging + a.imaging, !.imaging = 0,
            !.checking = [cur |-> 0, old |-> a.checking.old + a.checking.cur],
            !.fetching = [cur |-> 0, old |-> a.fetching.old + a.fetching.cur],
            !.timer = [a.timer EXCEPT !.sees.stale = a.timer.sees.pollable],
            !.effect = [a.effect EXCEPT
                          !.sees.stale = a.effect.sees.pollable]]

\* handleGenerateScenes up to its await: setScenes([]).
HandleGenerateScenes ==
  /\ app.mounted
  /\ ~app.isGeneratingScenes
  /\ app.sceneSets < MaxSceneSets
  /\ app' = Render(app,
                   [Removed(app) EXCEPT !.isGeneratingScenes = TRUE,
                                        !.scenesPending = @ + 1,
                                        !.sceneSets = @ + 1],
                   TRUE, FALSE)
  /\ UNCHANGED <<conc, callVars>>

\* generateScenes resolves: setScenes(newScenes), scenes with new ids that
\* are not generating; newScenes is "none" when the service returned an
\* empty list.
ScenesResolve(newScenes) ==
  /\ app.scenesPending > 0
  /\ app' = Render(app,
                   [Removed(app) EXCEPT !.scene = newScenes,
                                        !.isGeneratingScenes = FALSE,
                                        !.scenesPending = @ - 1],
                   TRUE, FALSE)
  /\ UNCHANGED <<conc, callVars>>

\* generateScenes rejects.
ScenesReject ==
  /\ app.scenesPending > 0
  /\ app' = Render(app,
                   [HaltAllGenerations(app) EXCEPT
                      !.isGeneratingScenes = FALSE,
                      !.scenesPending = @ - 1],
                   TRUE, FALSE)
  /\ UNCHANGED <<conc, callVars>>

\* handleGenerateSceneOutput with videoSettings.quality = "free", up to its
\* await; the button is disabled while the scene is generating.
HandleGenerateSceneImages ==
  /\ app.mounted
  /\ app.scene = "present"
  /\ ~app.isGenerating
  /\ app.starts < MaxStarts
  /\ app' = Render(app,
                   [app EXCEPT !.isGenerating = TRUE, !.videoUrl = "none",
                               !.polledOut = FALSE,
                               !.imaging = @ + 1, !.starts = @ + 1],
                   TRUE, FALSE)
  /\ UNCHANGED <<conc, callVars>>

\* generateImageSequenceForScene resolves, for the current scene or for the
\* old one (the update then matches no scene).
ImagesResolve(old) ==
  /\ IF old THEN app.oldImaging > 0 ELSE app.imaging > 0
  /\ app' = IF old
            THEN Render(app, [app EXCEPT !.oldImaging = @ - 1], TRUE, FALSE)
            ELSE Render(app, [app EXCEPT !.isGenerating = FALSE,
                                         !.imaging = @ - 1], TRUE, FALSE)
  /\ UNCHANGED <<conc, callVars>>

\* generateImageSequenceForScene rejects.
ImagesReject(old) ==
  /\ IF old THEN app.oldImaging > 0 ELSE app.imaging > 0
  /\ app' = IF old
            THEN Render(app, [HaltAllGenerations(app) EXCEPT
                                !.oldImaging = @ - 1], TRUE, FALSE)
            ELSE Render(app, [HaltAllGenerations(app) EXCEPT
                                !.isGenerating = FALSE,
                                !.imaging = @ - 1], TRUE, FALSE)
  /\ UNCHANGED <<conc, callVars>>

\* The catch block of handleGenerateSceneVideo and of pollVideoStatus, for
\* the current scene or for the old one.
SceneFailed(a, old) ==
  IF old THEN HaltAllGenerations(a)
  ELSE [HaltAllGenerations(a) EXCEPT !.isGenerating = FALSE,
                                     !.active = FALSE]

\* handleGenerateSceneOutput with another quality: handleGenerateSceneVideo
\* up to its await.
HandleGenerateSceneVideo ==
  /\ app.mounted
  /\ app.scene = "present"
  /\ ~app.isGenerating
  /\ app.starts < MaxStarts
  /\ app' = Render(app,
                   [app EXCEPT !.isGenerating = TRUE, !.videoUrl = "none",
                               !.active = TRUE,
                               !.polledOut = FALSE,
                               !.starting = @ + 1, !.starts = @ + 1],
                   TRUE, FALSE)
  /\ UNCHANGED <<conc, callVars>>

\* startVideoGeneration resolves: the operation is stored in the scene.
SceneStartResolves(old) ==
  /\ IF old THEN app.oldStarting > 0 ELSE app.starting > 0
  /\ app' = IF old
            THEN Render(app, [app EXCEPT !.oldStarting = @ - 1], TRUE, FALSE)
            ELSE Render(app, [app EXCEPT !.operation = "running",
                                         !.starting = @ - 1], TRUE, FALSE)
  /\ UNCHANGED <<conc, callVars>>

\* startVideoGeneration rejects.
SceneStartRejects(old) ==
  /\ IF old THEN app.oldStarting > 0 ELSE app.starting > 0
  /\ app' = IF old
            THEN Render(app, [SceneFailed(app, TRUE) EXCEPT
                                !.oldStarting = @ - 1], TRUE, FALSE)
            ELSE Render(app, [SceneFailed(app, FALSE) EXCEPT
                                !.starting = @ - 1], TRUE, FALSE)
  /\ UNCHANGED <<conc, callVars>>

\* The calls of pollVideoStatus and of pollTestVideoStatus that are awaiting.
PollsInFlight(a) ==
  a.checking.cur + a.checking.old + a.fetching.cur + a.fetching.old
TestPollsInFlight(a) ==
  a.testChecking[0] + a.testChecking[50] + a.testFetching

\* The scene a poll is about: the current one or the old one.
Which(old) == IF old THEN "old" ELSE "cur"

\* The interval fires: pollVideoStatus of the scheduling render, up to its
\* await.  It sees the activeGenerations and scenes of that render.
PollVideoStatus ==
  /\ app.timer.alive
  /\ app.timer.sees.pollable => PollsInFlight(app) < MaxPolls
  /\ app' = IF ~app.timer.sees.size
            THEN [app EXCEPT !.ref = "null", !.timer = DeadTimer]
            ELSE IF ~app.timer.sees.pollable
                 THEN app
                 ELSE [app EXCEPT
                         !.checking[Which(app.timer.sees.stale)] = @ + 1]
  /\ UNCHANGED <<conc, callVars>>

\* checkVideoOperationStatus settles.  status is what the service reports:
\* not done, done with a response, done with an error, done with neither,
\* or a rejected request.  For the old scene the updates of scenes match
\* no scene.
PollChecked(status, old) ==
  /\ app.checking[Which(old)] > 0
  /\ LET back == [app EXCEPT !.checking[Which(old)] = @ - 1]
         failed == [SceneFailed(back, old) EXCEPT
                      !.polledOut = IF old THEN @ ELSE TRUE]
     IN app' =
          CASE status = "rejected" -> Render(app, failed, TRUE, FALSE)
            [] status = "error" -> Render(app, failed, TRUE, FALSE)
            [] status = "running" ->
                 Render(app, IF old THEN back
                             ELSE [back EXCEPT !.operation = "running"],
                        TRUE, FALSE)
            [] status = "response" ->
                 Render(app, IF old
                             THEN [back EXCEPT !.fetching.old = @ + 1]
                             ELSE [back EXCEPT !.operation = "done",
                                               !.fetching.cur = @ + 1],
                        TRUE, FALSE)
            [] status = "neither" ->
                 Render(app, IF old THEN [back EXCEPT !.orphan = FALSE]
                             ELSE [back EXCEPT !.operation = "done",
                                               !.active = FALSE,
                                               !.polledOut = TRUE],
                        TRUE, FALSE)
  /\ UNCHANGED <<conc, callVars>>

\* fetchVideoData settles after a response was reported.
PollFetched(ok, old) ==
  /\ app.fetching[Which(old)] > 0
  /\ LET back == [app EXCEPT !.fetching[Which(old)] = @ - 1]
     IN app' =
          IF ~ok
          THEN Render(app, [SceneFailed(back, old) EXCEPT
                              !.polledOut = IF old THEN @ ELSE TRUE],
                      TRUE, FALSE)
          ELSE Render(app, IF old THEN [back EXCEPT !.orphan = FALSE]
                           ELSE [back EXCEPT !.videoUrl = "url",
                                             !.isGenerating = FALSE,
                                             !.operation = "none",
                                             !.active = FALSE,
                                             !.polledOut = TRUE],
                      TRUE, FALSE)
  /\ UNCHANGED <<conc, callVars>>

\* handleGenerateTestVideo up to its await; the button is disabled while
\* the test video is generating.
HandleGenerateTestVideo ==
  /\ app.mounted
  /\ ~app.isGeneratingTestVideo
  /\ app.testStarts < MaxTestStarts
  /\ app' = Render(app,
                   [app EXCEPT !.isGeneratingTestVideo = TRUE,
                               !.testVideoUrl = "none",
                               !.testVideoProgress = 0,
                               !.testVideoOperation = "none",
                               !.testStarting = @ + 1,
                               !.testStarts = @ + 1],
                   FALSE, FALSE)
  /\ UNCHANGED <<conc, callVars>>

\* startVideoGeneration resolves for the test video.
TestStartResolves ==
  /\ app.testStarting > 0
  /\ app' = Render(app,
                   [app EXCEPT !.testVideoOperation = "running",
                               !.testStarting = @ - 1],
                   FALSE, TRUE)
  /\ UNCHANGED <<conc, callVars>>

\* startVideoGeneration rejects for the test video.
TestStartRejects ==
  /\ app.testStarting > 0
  /\ app' = Render(app,
                   [HaltAllGenerations(app) EXCEPT
                      !.isGeneratingTestVideo = FALSE,
                      !.testStarting = @ - 1],
                   TRUE, FALSE)
  /\ UNCHANGED <<conc, callVars>>

\* The test interval fires: pollTestVideoStatus of the scheduling render,
\* up to its await.
PollTestVideoStatus ==
  /\ app.testTimer.alive
  /\ app.testTimer.sees.operation # "none" => TestPollsInFlight(app) < MaxPolls
  /\ app' = IF app.testTimer.sees.operation = "none"
            THEN app
            ELSE [app EXCEPT
                    !.testChecking[app.testTimer.sees.progress] = @ + 1]
  /\ UNCHANGED <<conc, callVars>>

\* The branch of pollTestVideoStatus taken when the operation is done.
TestDone(a) ==
  [a EXCEPT !.testRef = "null", !.testTimer = DeadTestTimer,
            !.isGeneratingTestVideo = FALSE, !.testVideoOperation = "none"]

\* The catch block of pollTestVideoStatus.
TestPollFailed(a) ==
  [HaltAllGenerations(a) EXCEPT !.testRef = "null",
                                !.testTimer = DeadTestTimer,
                                !.isGeneratingTestVideo = FALSE,
                                !.testVideoOperation = "none"]

\* checkVideoOperationStatus settles for the test video; reported is the
\* percentage in its metadata, seenProgress the testVideoProgress of the
\* render that scheduled the interval.
TestPollChecked(status, reported, seenProgress) ==
  /\ app.testChecking[seenProgress] > 0
  /\ LET progress == IF reported # 0 THEN reported ELSE seenProgress
         back == [app EXCEPT !.testChecking[seenProgress] = @ - 1]
         seen == [back EXCEPT !.testVideoProgress = progress]
     IN app' =
          CASE status = "rejected" ->
                 Render(app, TestPollFailed(back), TRUE, FALSE)
            [] status = "running" ->
                 Render(app, [seen EXCEPT !.testVideoOperation = "running"],
                        FALSE, TRUE)
            [] status = "response" ->
                 Render(app, [TestDone(seen) EXCEPT !.testFetching = @ + 1],
                        FALSE, FALSE)
            [] status = "error" ->
                 Render(app, TestPollFailed(TestDone(seen)), TRUE, FALSE)
            [] status = "neither" ->
                 Render(app, TestDone(seen), FALSE, FALSE)
  /\ UNCHANGED <<conc, callVars>>

\* fetchVideoData settles for the test video.
TestPollFetched(ok) ==
  /\ app.testFetching > 0
  /\ LET back == [app EXCEPT !.testFetching = @ - 1]
     IN app' = IF ok
               THEN Render(app, [back EXCEPT !.testVideoUrl = "url"],
                           FALSE, FALSE)
               ELSE Render(app, TestPollFailed(back), TRUE, FALSE)
  /\ UNCHANGED <<conc, callVars>>

\* What checkVideoOperationStatus can report.
PollStatus == {"running", "response", "error", "neither", "rejected"}

AppNext ==
  \/ RunEffects
  \/ Unmount
  \/ HandleApiError
  \/ HandleSceneSummaryChange
  \/ HandleGenerateScenes
  \/ \E newScenes \in {"none", "present"} : ScenesResolve(newScenes)
  \/ ScenesReject
  \/ HandleGenerateSceneImages
  \/ \E old \in BOOLEAN : ImagesResolve(old)
  \/ \E old \in BOOLEAN : ImagesReject(old)
  \/ HandleGenerateSceneVideo
  \/ \E old \in BOOLEAN : SceneStartResolves(old)
  \/ \E old \in BOOLEAN : SceneStartRejects(old)
  \/ PollVideoStatus
  \/ \E status \in PollStatus, old \in BOOLEAN : PollChecked(status, old)
  \/ \E ok \in BOOLEAN, old \in BOOLEAN : PollFetched(ok, old)
  \/ HandleGenerateTestVideo
  \/ TestStartResolves
  \/ TestStartRejects
  \/ PollTestVideoStatus
  \/ \E status \in PollStatus, reported \in Progress, seenProgress \in Progress :
       TestPollChecked(status, reported, seenProgress)
  \/ \E ok \in BOOLEAN : TestPollFetched(ok)

AppSpec == AppInit /\ [][AppNext]_vars


\* ------------------------------------------------------------ properties
\* The cut call has passed the allocation of lines 84-97.
Allocated == op = "cut" /\ pc \in {"cut.parsing", "cut.streaming", "cut.flushed"}

\* Positions (i, j) of the samples appended to the segment files.
CutPositions ==
  { p \in (1..Len(segmentFiles)) \X (1..MaxSamples) :
      p[2] <= Len(segmentFiles[p[1]].samples) }
CutSample(p) == segmentFiles[p[1]].samples[p[2]]

\* The samples appended to combine's output file.
CombinedSamples ==
  IF Len(outputFile) = 0 THEN {}
  ELSE { outputFile[1].samples[j] : j \in 1..Len(outputFile[1].samples) }

\* Timescale of the source track a cut sample came from.
SourceTimescale(sample) ==
  source.tracks[FindTrack(source.tracks, sample.srcTrack)].timescale

\* A double is not below zero.
NotNegative(x) == Len(x.m) = 0 \/ ~x.neg

\* -1, 0 or 1 as the double x >= 0 is below, at or above the fraction p / q,
\* for p >= 0 and 0 < q < Limb; no rounding.
CmpFraction(x, p, q) ==
  IF x.e >= 0 THEN Cmp(Shl(MulSmall(x.m, q), x.e), NatOf(p))
  ELSE Cmp(MulSmall(x.m, q), Shl(NatOf(p), 0 - x.e))

\* The segment count of a 20 s source cut at 8 s.
TwentySecondsAtEight == NumSegments([duration |-> 20, timescale |-> 1], Seconds(8))

C2_KeptDtsWithinSegment ==
  op = "cut" =>
    \A p \in CutPositions :
      /\ NotNegative(CutSample(p).dts)
      /\ CmpFraction(CutSample(p).dts,
                     segmentDuration.num * SourceTimescale(CutSample(p)),
                     segmentDuration.den) < 0

\* C3: when segmentDuration >= totalDuration, cut allocates exactly one
\* segment, every sample appended to it keeps its source DTS and CTS, and a
\* resolved call returns exactly one clip.
C3_WholeSourceInOneSegment ==
  (Allocated /\ segmentDuration.num * source.timescale
                  >= source.duration * segmentDuration.den) =>
    /\ Len(segmentFiles) = 1
    /\ \A p \in CutPositions :
         /\ CutSample(p).dts = FromInt(CutSample(p).srcDts)
         /\ CutSample(p).cts = FromInt(CutSample(p).srcCts)
    /\ result.state = "resolved" => Len(result.value) = 1

\* C3 witness: such a call has resolved with a sample past tick 0 in its one
\* segment.
C3_Witness ==
  /\ Allocated
  /\ segmentDuration.num * source.timescale
       >= source.duration * segmentDuration.den
  /\ result.state = "resolved"
  /\ \E p \in CutPositions : CutSample(p).srcDts > 0

\* C4: every sample appended to a destination container by cut or by
\* combine has destination DTS >= 0 and destination CTS >= 0.
C4_DestinationTimestampsNonNegative ==
  /\ \A p \in CutPositions :
       NotNegative(CutSample(p).dts) /\ NotNegative(CutSample(p).cts)
  /\ \A s \in CombinedSamples : s.dts >= 0 /\ s.cts >= 0

\* C5: combine with exactly one url resolves with that url, and fetches
\* nothing, parses nothing, extracts no sample and creates no container or
\* object URL.
C5_SinglePassThrough ==
  (op = "combine" /\ Len(videoUrls) = 1) =>
    /\ fetches = 0 /\ parsers = 0 /\ blobs = 0
    /\ Len(outputFile) = 0 /\ Len(allSamples) = 0
    /\ result.state # "rejected"
    /\ pc = "done" => result = Resolved(videoUrls[1])
    /\ pc \in {"entry", "done"}

\* C5 witness: a one-url call has returned.
C5_Witness ==
  op = "combine" /\ Len(videoUrls) = 1 /\ pc = "done"
    /\ result.state = "resolved"

\* C6: combine with no url is rejected with EmptyInput; no container is
\* created and nothing is fetched.
C6_EmptyInputFails ==
  (op = "combine" /\ Len(videoUrls) = 0) =>
    /\ fetches = 0 /\ parsers = 0
    /\ Len(outputFile) = 0
    /\ result.state # "resolved"
    /\ pc = "done" => result = Rejected(EmptyInput)
    /\ pc \in {"entry", "done"}

\* C6 witness: an empty call has failed.
C6_Witness ==
  op = "combine" /\ Len(videoUrls) = 0 /\ pc = "done"
    /\ result.state = "rejected"

\* C7: in cut, and in combine with two or more urls, a source that parses
\* to zero tracks makes the call fail with InvalidContainer, and when it
\* has failed so no destination container has been allocated.
C7_ZeroTracksFailBeforeAllocation ==
  /\ (op = "cut" /\ pc = "done" /\ source.outcome = "ready"
        /\ Len(source.tracks) = 0) =>
       /\ result = Rejected(InvalidContainer)
       /\ Len(segmentFiles) = 0
  /\ (op = "combine" /\ pc = "done" /\ Len(videoUrls) >= 2
        /\ contents[k].outcome = "ready" /\ Len(contents[k].tracks) = 0) =>
       /\ result = Rejected(InvalidContainer)
       /\ Len(outputFile) = 0

\* C8: cut on a parsed source whose duration / timescale is zero or negative
\* is rejected with InvalidDuration; no segment file is allocated and no
\* sample is extracted.
C8_NonPositiveDurationFails ==
  (op = "cut" /\ source.outcome = "ready" /\ Len(source.tracks) > 0
     /\ source.duration <= 0) =>
    /\ Len(segmentFiles) = 0
    /\ Len(delivered) = 0
    /\ numSegments = 0 - 1
    /\ result.state # "resolved"
    /\ pc = "done" => result = Rejected(InvalidDuration)
    /\ pc \in {"entry", "cut.getInfo", "cut.afterInfo", "done"}

\* C8 witness: a zero-duration source has been refused.
C8_Witness ==
  /\ op = "cut" /\ pc = "done"
  /\ source.duration = 0 /\ Len(source.tracks) > 0
  /\ result = Rejected(InvalidDuration)

\* No segment file is non-empty: none has received a sample.
NoClip ==
  \A i \in 1..Len(segmentFiles) : Len(segmentFiles[i].samples) = 0

\* C9: when the stream has ended without an adapter error and no segment
\* file has received a sample, cut is rejected with ExtractionFailure (and
\* is rejected as well when the adapter had reported an error); and a
\* resolved cut never carries an empty list.
C9_NoEmptyResult ==
  op = "cut" =>
    /\ (pc = "cut.flushed" /\ NoClip) =>
         /\ numSegments > 0
         /\ result.state = "rejected"
         /\ ~errored => result = Rejected(ExtractionFailure)
    /\ result.state = "resolved" => Len(result.value) > 0

\* The digits of a clip name, between "clip_" and ".mp4".
NameDigits(name) == SubSeq(name, 6, Len(name) - 4)

DigitValue(c) ==
  CASE c = "0" -> 0 [] c = "1" -> 1 [] c = "2" -> 2 [] c = "3" -> 3
    [] c = "4" -> 4 [] c = "5" -> 5 [] c = "6" -> 6 [] c = "7" -> 7
    [] c = "8" -> 8 [] c = "9" -> 9 [] OTHER -> 0 - 1

RECURSIVE DigitsValue(_)
DigitsValue(ds) ==
  IF Len(ds) = 0 THEN 0
  ELSE 10 * DigitsValue(SubSeq(ds, 1, Len(ds) - 1)) + DigitValue(ds[Len(ds)])

\* C10: the list a cut resolves with holds, in ascending segment order,
\* exactly the segments that are not empty (that received a sample); the
\* name of segment i (from 0) is clip_ followed by i + 1 in decimal, padded
\* with zeros to two digits and no more, so the numbers in the names
\* increase strictly.
C10_ClipListOrderAndNames ==
  (op = "cut" /\ result.state = "resolved") =>
    LET v == result.value
    IN /\ \A j \in 1..Len(v) :
            LET ds == NameDigits(v[j].name)
            IN /\ SubSeq(v[j].name, 1, 5) = <<"c", "l", "i", "p", "_">>
               /\ \A x \in 1..Len(ds) : DigitValue(ds[x]) >= 0
               /\ DigitsValue(ds) = v[j].segment + 1
               /\ Len(ds) >= 2
               /\ Len(ds) > 2 => ds[1] # "0"
       /\ \A j \in 1..(Len(v) - 1) :
            /\ v[j].segment < v[j + 1].segment
            /\ DigitsValue(NameDigits(v[j].name))
                 < DigitsValue(NameDigits(v[j + 1].name))
       /\ {v[j].segment : j \in 1..Len(v)} =
            {i \in 0..(Len(segmentFiles) - 1) :
               Len(segmentFiles[i + 1].samples) > 0}

\* Sum of the reported durations of the urls before url j.
RECURSIVE DurationBefore(_)
DurationBefore(j) ==
  IF j <= 1 THEN 0 ELSE DurationBefore(j - 1) + contents[j - 1].duration

\* C11: in combine with two or more urls, every sample of url j is appended
\* with DTS and CTS raised by the sum of the reported durations of the urls
\* before it (0 for the first); so its destination DTS is at least that sum.
C11_OffsetIsSumOfDurations ==
  op = "combine" =>
    /\ \A s \in CombinedSamples :
         /\ s.dts = s.srcDts + DurationBefore(s.src)
         /\ s.cts = s.srcCts + DurationBefore(s.src)
         /\ s.dts >= DurationBefore(s.src)
    /\ pc \in {"loop.fetch", "loop.getInfo", "loop.afterInfo", "loop.parsing",
               "loop.streaming", "loop.afterSamples"} =>
         accumulatedDuration = DurationBefore(k)

\* C11 witness: a sample of the second url appended behind a first clip of
\* duration 2 in timescale 2.
C11_Witness ==
  /\ op = "combine"
  /\ \E s \in CombinedSamples :
       /\ s.src = 2 /\ s.dts = s.srcDts + 2
       /\ contents[1].duration = 2 /\ contents[1].timescale = 2

\* Url j cannot be parsed: the adapter reports an error or no track.
Unparseable(j) ==
  contents[j].outcome = "error" \/ Len(contents[j].tracks) = 0

\* C12: in combine with two or more urls, once a url (first or later) has
\* failed to parse, in getInfo or in getSamples, the call is rejected: it
\* never resolves, and no object URL is made from what was built so far.
C12_ParseFailureAbortsCombine ==
  (op = "combine" /\ Len(videoUrls) >= 2) =>
    /\ (pc = "done" /\ (Unparseable(k) \/ samplesPromise.state = "rejected")) =>
         /\ result.state = "rejected"
         /\ blobs = 0
    /\ result.state = "resolved" =>
         \A j \in 1..Len(videoUrls) : ~Unparseable(j)

\* C12 witness: the second url fails to parse after a sample of the first
\* was appended.
C12_Witness ==
  /\ op = "combine" /\ pc = "done" /\ k = 2 /\ Unparseable(2)
  /\ Len(outputFile[1].samples) > 0
  /\ result.state = "rejected"

\* C13: in cut, once the adapter has reported an error on the streaming
\* parser, the call is rejected, the caller receives no clip list, and no clip
\* output (object URL of a segment) is made after the error.  The error can
\* only come before the first completion signal, so any blob that exists
\* together with the error was made after it.
C13_ErrorAbortsCut ==
  (op = "cut" /\ errored) =>
    /\ result.state = "rejected"
    /\ blobs = 0
    /\ clipUrls = << >>

\* C14: every call of cut or combine eventually settles its promise, with a
\* result or an error, whether the adapter reports ready, reports an error, or
\* delivers samples and then signals completion.
C14_EveryCallCompletes == <>(result.state # "pending")

\* C14 witness: a combine of two urls that went through getInfo and
\* getSamples of both and resolved.
C14_Witness ==
  /\ op = "combine" /\ pc = "done" /\ k = 2
  /\ samplesPromise.state = "resolved"
  /\ result.state = "resolved"

\* C15: cut and combine never change the buffer they parse: every object
\* passed to appendBuffer is a copy made by slice(0), with fileStart set on
\* the copy, so the caller's buffer (and each fetched buffer) keeps its bytes
\* and gets no property, whatever the adapter does to what it is given.
C15_SourceBufferUntouched ==
  /\ Len(handed) = parsers
  /\ \A i \in 1..Len(handed) :
       /\ ~handed[i].alias
       /\ handed[i].fileStart = 0
       /\ handed[i].bytes = FreshBuffer.bytes
  /\ op = "cut" => videoBuffer = FreshBuffer
  /\ op = "combine" => videoBuffer \in {NoBuffer, FreshBuffer}

\* C15 witness: a cut that handed a copy to getInfo and one to the streaming
\* parser and ran to the completion signal.
C15_Witness ==
  /\ op = "cut" /\ pc = "cut.flushed"
  /\ Len(handed) = 2
  /\ videoBuffer = FreshBuffer

\* Delivered samples whose track the source has and whose DTS lies in the
\* window of segment i (counted from 0) in that track's timescale:
\* i * d * timescale <= DTS < (i + 1) * d * timescale for d = num / den.
InWindow(i) ==
  { x \in 1..Len(delivered) :
      LET t == FindTrack(source.tracks, delivered[x].track)
      IN /\ t # 0
         /\ i * segmentDuration.num * source.tracks[t].timescale
              <= delivered[x].dts * segmentDuration.den
         /\ delivered[x].dts * segmentDuration.den
              < (i + 1) * segmentDuration.num * source.tracks[t].timescale }

\* C16: in cut a delivered sample is appended to segment i exactly when
\* i*d*timescale <= source DTS < (i+1)*d*timescale: every record of segment i
\* lies in window i, segment i holds as many records as samples were
\* delivered into window i, so no sample is in two segments and none inside
\* [0, numSegments*d) is left out.
C16_SegmentWindowsPartition ==
  Allocated =>
    /\ \A p \in CutPositions :
         LET ts == SourceTimescale(CutSample(p))
         IN /\ (p[1] - 1) * segmentDuration.num * ts
                 <= CutSample(p).srcDts * segmentDuration.den
            /\ CutSample(p).srcDts * segmentDuration.den
                 < p[1] * segmentDuration.num * ts
    /\ \A i \in 1..Len(segmentFiles) :
         Len(segmentFiles[i].samples) = Cardinality(InWindow(i - 1))
    /\ \A i, j \in 1..Len(segmentFiles) :
         i # j => InWindow(i - 1) \cap InWindow(j - 1) = {}

\* C17: in cut a segment file is serialised (getBuffer) only in a step in
\* which the adapter signals completion, never before the first such signal,
\* and once a segment file has been serialised no sample is appended to it;
\* for every order in which the tracks' onSamples callbacks arrive.
C17_NoEarlyFinalize ==
  /\ [](op = "cut" =>
          \A i \in 1..Len(segmentFiles) : segmentFiles[i].built <= flushes)
  /\ [][op = "cut" =>
          \A i \in 1..Len(segmentFiles) :
            /\ segmentFiles'[i].built > segmentFiles[i].built =>
                 flushes' > flushes
            /\ segmentFiles[i].built > 0 =>
                 segmentFiles'[i].samples = segmentFiles[i].samples]_vars

\* C17 witness: samples of track 2 delivered before samples of track 1, both
\* kept, and the segment files serialised at the completion signal.
C17_Witness ==
  /\ op = "cut" /\ pc = "cut.flushed"
  /\ Len(delivered) = 2
  /\ delivered[1].track = 2 /\ delivered[2].track = 1
  /\ \E p, q \in CutPositions :
       CutSample(p).srcTrack = 2 /\ CutSample(q).srcTrack = 1
  /\ \A i \in 1..Len(segmentFiles) : segmentFiles[i].built = 1

\* C18: in cut a segment file that received no sample is never serialised
\* (no getBuffer call on it) and no entry of the clip list comes from it.
C18_EmptyBuilderNotFinalized ==
  op = "cut" =>
    \A i \in 1..Len(segmentFiles) :
      Len(segmentFiles[i].samples) = 0 =>
        /\ segmentFiles[i].built = 0
        /\ \A c \in 1..Len(clipUrls) : clipUrls[c].segment # i - 1

\* C19: within one call no destination container is serialised twice, also
\* when the adapter signals completion more than once, and the container a
\* resolved combine returns was serialised once.
C19_FinalizedAtMostOnce ==
  /\ op = "cut" =>
       \A i \in 1..Len(segmentFiles) : segmentFiles[i].built <= 1
  /\ op = "combine" =>
       /\ \A i \in 1..Len(outputFile) : outputFile[i].built <= 1
       /\ (result.state = "resolved" /\ Len(videoUrls) >= 2) =>
            outputFile[1].built = 1

\* C20: every payload that cut or combine holds, queued in allSamples or
\* appended to a destination container, is a copy of its own (no view on the
\* adapter's buffer) and still has the bytes that were delivered.
C20_PayloadsAreCopies ==
  LET Own(data) == ~data.alias /\ data.bytes = AdapterPayload.bytes
  IN /\ \A p \in CutPositions : Own(CutSample(p).data)
     /\ \A i \in 1..Len(allSamples) : Own(allSamples[i].data)
     /\ \A c \in CombinedSamples : Own(c.data)

\* C21: once combine has set up its output file, the file has one destination
\* track for each track of the first url (and so a place for the samples of
\* every source track).
C21_OneDestinationTrackPerSourceTrack ==
  (op = "combine" /\ newTrackId # 0) =>
    Len(outputFile[1].tracks) = Len(contents[1].tracks)

\* Delivered samples of a track the source has: those whose segment index
\* floor(dts / timescale / segmentDuration), as line 123 computes it, lies
\* inside [0, numSegments), and those whose index lies outside.
KnownTrack(x) == FindTrack(source.tracks, delivered[x].track) # 0
TrackTimescale(x) ==
  source.tracks[FindTrack(source.tracks, delivered[x].track)].timescale
InsideCut(x) ==
  LET index == SegmentIndexAt(delivered[x].dts, TrackTimescale(x),
                              segmentDuration)
  IN 0 <= index /\ index < numSegments

RECURSIVE AppendedCount(_)
AppendedCount(i) ==
  IF i = 0 THEN 0 ELSE AppendedCount(i - 1) + Len(segmentFiles[i].samples)

\* C22: in cut a delivered sample of a known track whose segment index is
\* outside [0, numSegments) is appended to no segment, every other delivered
\* sample of a known track is appended (the appended records are as many as
\* those samples), and a delivery, dropped samples included, neither settles
\* the call nor reports an error.
C22_OnlyOutOfRangeDropped ==
  /\ [](Allocated =>
          /\ AppendedCount(Len(segmentFiles)) =
               Cardinality({ x \in 1..Len(delivered) :
                               KnownTrack(x) /\ InsideCut(x) })
          /\ \A x \in 1..Len(delivered) :
               (KnownTrack(x) /\ ~InsideCut(x)) =>
                 \A p \in CutPositions :
                   ~(/\ CutSample(p).srcTrack = delivered[x].track
                     /\ CutSample(p).srcDts = delivered[x].dts))
  /\ [][delivered' # delivered =>
          (result' = result /\ errored' = errored /\ pc' = pc)]_vars

\* C22 witness: one sample beyond the last segment and one inside were
\* delivered; only the second was appended and the call resolved.
C22_Witness ==
  /\ op = "cut" /\ pc = "cut.flushed" /\ result.state = "resolved"
  /\ Len(delivered) = 2
  /\ KnownTrack(1) /\ ~InsideCut(1)
  /\ KnownTrack(2) /\ InsideCut(2)
  /\ AppendedCount(Len(segmentFiles)) = 1

\* C23: every destination container lists its tracks in the order of the
\* source tracks they mirror (in cut all tracks of the source, in combine the
\* leading track of the first url), and in cut every appended sample carries
\* the id of the destination track that mirrors its own source track.
C23_TrackOrderAndMapping ==
  /\ Allocated =>
       /\ \A i \in 1..Len(segmentFiles) :
            /\ Len(segmentFiles[i].tracks) = Len(source.tracks)
            /\ \A j \in 1..Len(source.tracks) :
                 /\ segmentFiles[i].tracks[j].id = source.tracks[j].id
                 /\ segmentFiles[i].tracks[j].timescale
                      = source.tracks[j].timescale
       /\ \A p \in CutPositions :
            LET j == FindTrack(source.tracks, CutSample(p).srcTrack)
            IN /\ j # 0
               /\ CutSample(p).track = segmentFiles[p[1]].tracks[j].id
  /\ (op = "combine" /\ Len(outputFile) = 1) =>
       \A j \in 1..Len(outputFile[1].tracks) :
         outputFile[1].tracks[j].timescale = contents[1].tracks[j].timescale

\* C23 witness: a source with two tracks of different timescales cut into two
\* segments, a sample of the second track appended to the second segment.
C23_Witness ==
  /\ Allocated /\ Len(segmentFiles) = 2 /\ Len(source.tracks) = 2
  /\ source.tracks[1].timescale # source.tracks[2].timescale
  /\ \E p \in CutPositions :
       p[1] = 2 /\ CutSample(p).srcTrack = 2 /\ CutSample(p).track = 2

\* C24: every destination track carries the codec configuration of the
\* source track it mirrors: in cut only the sample count and the duration
\* differ (both 0), in combine only id, creation and modification time,
\* sample count and duration.
C24_CodecConfigurationKept ==
  /\ Allocated =>
       \A i \in 1..Len(segmentFiles) :
         \A j \in 1..Len(segmentFiles[i].tracks) :
           LET dst == segmentFiles[i].tracks[j]
               src == source.tracks[j]
           IN /\ dst.codec = src.codec
              /\ dst.id = src.id /\ dst.timescale = src.timescale
              /\ dst.created = src.created /\ dst.modified = src.modified
              /\ dst.nb_samples = 0 /\ dst.duration = 0
  /\ (op = "combine" /\ Len(outputFile) = 1) =>
       \A j \in 1..Len(outputFile[1].tracks) :
         LET dst == outputFile[1].tracks[j]
             src == contents[1].tracks[j]
         IN /\ dst.codec = src.codec
            /\ dst.timescale = src.timescale
            /\ dst.id = 1 /\ dst.nb_samples = 0 /\ dst.duration = 0

\* C24 witness: a source with a video and an audio track, with samples and a
\* duration of their own, mirrored into three segment files.
C24_Witness ==
  /\ Allocated /\ Len(segmentFiles) = 3 /\ Len(source.tracks) = 2
  /\ source.tracks[1].codec = "avc1" /\ source.tracks[2].codec = "mp4a"
  /\ source.tracks[2].nb_samples = 1
  /\ segmentFiles[3].tracks[2].codec = "mp4a"
  /\ segmentFiles[3].tracks[2].nb_samples = 0

\* C25: two calls whose steps interleave share no container: the containers
\* a call's locals point to were made for it and no other call has called a
\* method on them, and what a finished call has built is what it builds from
\* the same arguments when it runs alone.
C25_CallsShareNoState ==
  conc # ConcIdle =>
    /\ \A c \in 1..2 :
         /\ \A j \in 1..Len(conc.call[c].refs) :
              conc.touched[conc.call[c].refs[j]] \subseteq {c}
         /\ conc.call[c].pc = "done" =>
              conc.call[c].out = Alone(conc.call[c])
    /\ \A i \in 1..Len(conc.call[1].refs), j \in 1..Len(conc.call[2].refs) :
         conc.call[1].refs[i] # conc.call[2].refs[j]

\* C25 witness: a cut and a combine, the combine started first and finished
\* last, the cut having appended a sample to each of its segments in between.
C25_Witness ==
  /\ conc # ConcIdle
  /\ conc.call[1].kind = "combine" /\ conc.call[2].kind = "cut"
  /\ conc.call[1].pc = "done" /\ conc.call[2].pc = "done"
  /\ conc.call[1].refs = <<1>> /\ conc.call[2].refs = <<2, 3>>
  /\ Len(conc.call[2].out[1].samples) = 1
  /\ Len(conc.call[2].out[2].samples) = 1
  /\ Len(conc.call[1].out[1].samples) = 2

\* C26: combine neither checks nor converts timescales: a call whose urls
\* all parse and extract is resolved whatever their timescales, the only
\* errors are those of the guards, of a failed fetch and of the parsers (none
\* is about the format), and every sample of a url
\* whose timescale may differ from the first one's is moved by the plain sum
\* of the durations reported before it, each in its own clip's units.
C26_NoTimescaleValidation ==
  (op = "combine" /\ Len(videoUrls) >= 2) =>
    /\ (pc = "done" /\ result.state = "rejected") =>
         /\ \/ Unparseable(k)
            \/ samplesPromise.state = "rejected"
            \/ result.error = FetchFailure
         /\ result.error \in {AdapterError, InvalidContainer,
                              InvalidContainerSamples, FetchFailure}
    /\ \A c \in CombinedSamples :
         contents[c.src].timescale # contents[1].timescale =>
           c.dts - c.srcDts = DurationBefore(c.src)

\* C26 witness: two urls in timescales 1 and 2, combined and resolved, a
\* sample of the second moved by the first one's duration of 2 units.
C26_Witness ==
  /\ op = "combine" /\ pc = "done" /\ result.state = "resolved"
  /\ Len(contents) = 2
  /\ contents[1].timescale = 1 /\ contents[2].timescale = 2
  /\ contents[1].duration = 2
  /\ \E c \in CombinedSamples : c.src = 2 /\ c.dts = c.srcDts + 2


\* C27: while an id is in activeGenerations and the effects of the last
\* render have run, an interval that calls pollVideoStatus is scheduled,
\* whichever renders have re-run the polling effect since the id was added.
C27_PollingTimerStaysScheduled ==
  (app.mounted /\ (app.active \/ app.orphan) /\ ~app.effect.due)
    => app.timer.alive

\* C28: while a test video is generating, its operation has been stored, no
\* poll is in flight and the effects of the last render have run, the
\* interval that calls pollTestVideoStatus is scheduled, so that the next
\* interval polls again after a poll that found the operation not done.
C28_TestPollingContinues ==
  (app.mounted /\ app.isGeneratingTestVideo
     /\ app.testVideoOperation # "none" /\ TestPollsInFlight(app) = 0
     /\ ~app.testEffect.due)
    => app.testTimer.alive

\* C29: once pollVideoStatus has removed the scene's id from
\* activeGenerations, and until the scene is started again, the scene has
\* isGenerating = false.
C29_PolledOutSceneNotGenerating ==
  (app.mounted /\ app.polledOut) => ~app.isGenerating

\* The DTS of a sequence of samples do not decrease: integer DTS, and the
\* DTS cutVideo writes.
NonDecreasingDts(seq) ==
  \A i, j \in 1..Len(seq) : i < j => seq[i].dts <= seq[j].dts
NonDecreasingNumbers(seq) ==
  \A i, j \in 1..Len(seq) : i < j => DCmp(seq[i].dts, seq[j].dts) <= 0

\* The samples delivered to cut for source track t, and those of them that
\* cut keeps for segment f (counted from 1).
DeliveredOf(t) == SelectSeq(delivered, LAMBDA x : x.track = t)
KeptOf(t, f) ==
  SelectSeq(DeliveredOf(t),
            LAMBDA x : SegmentIndexAt(x.dts,
                                      source.tracks[FindTrack(source.tracks,
                                                              t)].timescale,
                                      segmentDuration) = f - 1)

\* The samples appended to destination track id of a container.
AppendedTo(file, id) == SelectSeq(file.samples, LAMBDA x : x.track = id)

\* Every source track of the cut delivered in non-decreasing DTS order.
CutDeliveredInOrder ==
  \A t \in 1..MaxTracks : NonDecreasingDts(DeliveredOf(t))

\* Every url appended by combine so far delivered in non-decreasing DTS
\* order, each DTS below the reported duration of its url.
CombineDeliveredInOrder ==
  LET out == outputFile[1].samples
  IN /\ \A i, j \in 1..Len(out) :
          (i < j /\ out[i].src = out[j].src) => out[i].srcDts <= out[j].srcDts
     /\ \A i \in 1..Len(out) : out[i].srcDts < contents[out[i].src].duration

\* C30: when every source track delivers in non-decreasing DTS order (and,
\* in combine, every DTS is below the reported duration of its url), each
\* destination track holds its samples in the order they were delivered and
\* with non-decreasing destination DTS: in cut, track by track in every
\* segment; in combine, along the whole output track, across the boundary
\* between two urls too, each append step adding the delivered list in its
\* order behind what was there.
C30_OrderAndDtsKept ==
  /\ []((Allocated /\ CutDeliveredInOrder) =>
          \A t \in DOMAIN trackIdMap : \A f \in 1..Len(segmentFiles) :
            LET out == AppendedTo(segmentFiles[f], trackIdMap[t][f])
                kept == KeptOf(t, f)
            IN /\ Len(out) = Len(kept)
               /\ \A i \in 1..Len(out) :
                    out[i].srcDts = kept[i].dts /\ out[i].srcCts = kept[i].cts
               /\ NonDecreasingNumbers(out))
  /\ []((op = "combine" /\ Len(outputFile) = 1 /\ CombineDeliveredInOrder) =>
          LET out == outputFile[1].samples
          IN /\ NonDecreasingDts(out)
             /\ \A i, j \in 1..Len(out) : i < j => out[i].src <= out[j].src)
  /\ [][(op = "combine" /\ pc = "loop.afterSamples" /\ pc' # pc
           /\ samplesPromise.state = "resolved") =>
          LET old == outputFile[1].samples
              new == outputFile'[1].samples
              got == samplesPromise.value
          IN /\ Len(new) = Len(old) + Len(got)
             /\ \A i \in 1..Len(old) : new[i] = old[i]
             /\ \A i \in 1..Len(got) :
                  /\ new[Len(old) + i].src = k
                  /\ new[Len(old) + i].srcDts = got[i].dts
                  /\ new[Len(old) + i].srcCts = got[i].cts]_vars

\* C30 witness: combine has appended a sample of the second url behind a
\* sample of the first whose DTS 1 is below the first url's duration 2; the
\* destination DTS go from 1 to 2 across the boundary.
C30_Witness ==
  /\ op = "combine"
  /\ Len(outputFile) = 1
  /\ CombineDeliveredInOrder
  /\ Len(outputFile[1].samples) = 2
  /\ outputFile[1].samples[1].src = 1 /\ outputFile[1].samples[1].dts = 1
  /\ outputFile[1].samples[2].src = 2 /\ outputFile[1].samples[2].srcDts = 0
  /\ outputFile[1].samples[2].dts = 2

====
